---- MODULE Spec2Model ----
(***************************************************************************)
(* Outback Stockbook: the SQLite persistence layer (models/database.py)    *)
(* and the dialog handlers that write through it (ui/dialogs, ui/views).   *)
(*                                                                         *)
(* The store is one value, db: a record of tables, each a function from    *)
(* row id to row, plus seq, the AUTOINCREMENT counters (sqlite_sequence).  *)
(* A nullable column or Optional field holds None (the empty set) or       *)
(* Some(v) (a singleton), so that a comparison with NULL is never true,    *)
(* as in SQL.  Dates are day ordinals: sqlite3 stores a date as its        *)
(* ISO-8601 text, whose order is the order of the dates.  Free-text        *)
(* columns that carry no constraint and that no query reads (breed, dose,  *)
(* batch_number, notes, ...) are left out of the rows.                     *)
(***************************************************************************)
EXTENDS Integers, Sequences, FiniteSets, TLC

VARIABLES db, now, last, files, conn

vars == <<db, now, last, files, conn>>

None == {}
Some(v) == {v}
The(x) == CHOOSE v \in x : TRUE

(***************************************************************************)
(* Bounds of the model.                                                    *)
(***************************************************************************)
MaxAnimals == 2
MaxProducts == 1
MaxTreatments == 2
MaxSelection == 2
MaxRows == 3
MaxNow == 2

(***************************************************************************)
(* Enumerations (models/entities.py).                                      *)
(***************************************************************************)
AnimalStatus == {"alive", "sold", "dead", "missing"}
Species == {"cattle", "sheep"}
EventType == {"movement", "treatment", "weigh", "death", "sale", "birth",
              "pregnancy_test", "joining", "note"}

Tables == {"property_settings", "paddocks", "mobs", "animals", "products",
           "events", "movement_events", "treatment_events", "weigh_events",
           "tasks"}

(***************************************************************************)
(* The schema's declared constraints.                                      *)
(***************************************************************************)
Ids(d, table) == DOMAIN d[table]

NotNullOk(d) ==
    /\ \A i \in Ids(d, "property_settings") :
          d.property_settings[i].property_name # None
    /\ \A i \in Ids(d, "paddocks") : d.paddocks[i].name # None
    /\ \A i \in Ids(d, "mobs") :
          d.mobs[i].name # None /\ d.mobs[i].species # None
    /\ \A i \in Ids(d, "animals") :
          d.animals[i].species # None /\ d.animals[i].status # None
    /\ \A i \in Ids(d, "products") : d.products[i].name # None
    /\ \A i \in Ids(d, "events") :
          d.events[i].event_type # None /\ d.events[i].event_date # None
    /\ \A i \in Ids(d, "movement_events") : d.movement_events[i].event_id # None
    /\ \A i \in Ids(d, "treatment_events") : d.treatment_events[i].event_id # None
    /\ \A i \in Ids(d, "weigh_events") :
          d.weigh_events[i].event_id # None /\ d.weigh_events[i].weight_kg # None
    /\ \A i \in Ids(d, "tasks") : d.tasks[i].title # None

ForeignKeysOk(d) ==
    /\ \A i \in Ids(d, "mobs") :
          d.mobs[i].current_paddock_id \subseteq Ids(d, "paddocks")
    /\ \A i \in Ids(d, "animals") :
          /\ d.animals[i].mob_id \subseteq Ids(d, "mobs")
          /\ d.animals[i].dam_id \subseteq Ids(d, "animals")
          /\ d.animals[i].sire_id \subseteq Ids(d, "animals")
    /\ \A i \in Ids(d, "events") :
          /\ d.events[i].animal_id \subseteq Ids(d, "animals")
          /\ d.events[i].mob_id \subseteq Ids(d, "mobs")
    /\ \A i \in Ids(d, "movement_events") :
          /\ d.movement_events[i].event_id \subseteq Ids(d, "events")
          /\ d.movement_events[i].from_paddock_id \subseteq Ids(d, "paddocks")
          /\ d.movement_events[i].to_paddock_id \subseteq Ids(d, "paddocks")
    /\ \A i \in Ids(d, "treatment_events") :
          /\ d.treatment_events[i].event_id \subseteq Ids(d, "events")
          /\ d.treatment_events[i].product_id \subseteq Ids(d, "products")
    /\ \A i \in Ids(d, "weigh_events") :
          d.weigh_events[i].event_id \subseteq Ids(d, "events")
    /\ \A i \in Ids(d, "tasks") :
          /\ d.tasks[i].source_event_id \subseteq Ids(d, "events")
          /\ d.tasks[i].animal_id \subseteq Ids(d, "animals")
          /\ d.tasks[i].mob_id \subseteq Ids(d, "mobs")

(* connect() turns foreign-key enforcement on for the connection. *)
foreign_keys == TRUE

(***************************************************************************)
(* One SQL statement followed by commit().  The statement takes the store  *)
(* from d to d2; SQLite rolls the statement back and sqlite3 raises        *)
(* IntegrityError when d2 breaks a NOT NULL constraint or (the foreign     *)
(* keys being immediate) leaves a foreign-key violation.  id is            *)
(* cursor.lastrowid.                                                       *)
(***************************************************************************)
execute(d, d2, id) ==
    IF NotNullOk(d2) /\ (foreign_keys => ForeignKeysOk(d2))
    THEN [db |-> d2, raised |-> FALSE, id |-> id]
    ELSE [db |-> d, raised |-> TRUE, id |-> None]

NewId_rowcount(d, table) == Cardinality(Ids(d, table)) + 1

(* INSERT INTO table: AUTOINCREMENT gives the row an id above every id the *)
(* table has ever held.                                                    *)
NewId(d, table) == d.seq[table] + 1

InsertInto(d, table, row) ==
    LET id == NewId(d, table)
    IN execute(d,
               [d EXCEPT ![table] = (id :> row) @@ @, !.seq[table] = id],
               Some(id))

(* UPDATE table SET ... WHERE id = ?: no row matched is no error. *)
UpdateWhere(d, table, id, row) ==
    IF id \in Ids(d, table)
    THEN execute(d, [d EXCEPT ![table][id] = row], Some(id))
    ELSE [db |-> d, raised |-> FALSE, id |-> Some(id)]

(* DELETE FROM table WHERE id = ? *)
DeleteFrom(d, table, id) ==
    execute(d,
            [d EXCEPT ![table] = [i \in DOMAIN @ \ {id} |-> @[i]]],
            Some(id))

EmptyDb ==
    [property_settings |-> <<>>, paddocks |-> <<>>, mobs |-> <<>>,
     animals |-> <<>>, products |-> <<>>, events |-> <<>>,
     movement_events |-> <<>>, treatment_events |-> <<>>,
     weigh_events |-> <<>>, tasks |-> <<>>,
     seq |-> [t \in Tables |-> 0]]

(***************************************************************************)
(* Persistence layer: each save_<entity>(d, e, t) is the method run on the *)
(* store d at datetime.now() = t; its result holds the store afterwards,   *)
(* whether the call raised, and the identity the entity object then        *)
(* carries.                                                                *)
(***************************************************************************)
save_paddock(d, paddock, t) ==
    IF paddock.id = None
    THEN InsertInto(d, "paddocks",
                    [name |-> paddock.name,
                     created_at |-> Some(t), updated_at |-> Some(t)])
    ELSE LET id == The(paddock.id)
         IN UpdateWhere(d, "paddocks", id,
                        [d.paddocks[id] EXCEPT !.name = paddock.name,
                                               !.updated_at = Some(t)])

get_paddock(d, paddock_id) ==
    IF paddock_id \in Ids(d, "paddocks")
    THEN Some([id |-> Some(paddock_id), name |-> d.paddocks[paddock_id].name])
    ELSE None

delete_paddock(d, paddock_id) == DeleteFrom(d, "paddocks", paddock_id)

save_mob(d, mob, t) ==
    IF mob.id = None
    THEN InsertInto(d, "mobs",
                    [name |-> mob.name, species |-> Some(mob.species),
                     current_paddock_id |-> mob.current_paddock_id,
                     created_at |-> Some(t), updated_at |-> Some(t)])
    ELSE LET id == The(mob.id)
         IN UpdateWhere(d, "mobs", id,
                        [d.mobs[id] EXCEPT
                            !.name = mob.name,
                            !.species = Some(mob.species),
                            !.current_paddock_id = mob.current_paddock_id,
                            !.updated_at = Some(t)])

get_mob(d, mob_id) ==
    IF mob_id \in Ids(d, "mobs")
    THEN Some([id |-> Some(mob_id), name |-> d.mobs[mob_id].name,
               species |-> The(d.mobs[mob_id].species),
               current_paddock_id |-> d.mobs[mob_id].current_paddock_id])
    ELSE None

delete_mob_cascading(d, mob_id) ==
    LET gone == {a \in Ids(d, "animals") : d.animals[a].mob_id = Some(mob_id)}
    IN DeleteFrom([d EXCEPT !.animals = [a \in DOMAIN @ \ gone |-> @[a]]],
                  "mobs", mob_id)

delete_mob(d, mob_id) == DeleteFrom(d, "mobs", mob_id)

save_animal(d, animal, t) ==
    IF animal.id = None
    THEN InsertInto(d, "animals",
                    [eid |-> animal.eid, visual_tag |-> animal.visual_tag,
                     species |-> Some(animal.species),
                     status |-> Some(animal.status),
                     mob_id |-> animal.mob_id, dam_id |-> animal.dam_id,
                     sire_id |-> animal.sire_id,
                     created_at |-> Some(t), updated_at |-> Some(t)])
    ELSE LET id == The(animal.id)
         IN UpdateWhere(d, "animals", id,
                        [d.animals[id] EXCEPT
                            !.eid = animal.eid,
                            !.visual_tag = animal.visual_tag,
                            !.species = Some(animal.species),
                            !.status = Some(animal.status),
                            !.mob_id = animal.mob_id,
                            !.dam_id = animal.dam_id,
                            !.sire_id = animal.sire_id,
                            !.updated_at = Some(t)])

(* _row_to_animal *)
(* An Animal() where there is no row. *)
get_animal_default(d, animal_id) ==
    IF animal_id \in Ids(d, "animals")
    THEN LET r == d.animals[animal_id]
         IN Some([id |-> Some(animal_id), eid |-> r.eid,
                  visual_tag |-> r.visual_tag, species |-> The(r.species),
                  status |-> The(r.status), mob_id |-> r.mob_id,
                  dam_id |-> r.dam_id, sire_id |-> r.sire_id])
    ELSE Some([id |-> None, eid |-> <<>>, visual_tag |-> <<>>,
               species |-> "cattle", status |-> "alive", mob_id |-> None,
               dam_id |-> None, sire_id |-> None])

get_animal(d, animal_id) ==
    IF animal_id \in Ids(d, "animals")
    THEN LET r == d.animals[animal_id]
         IN Some([id |-> Some(animal_id), eid |-> r.eid,
                  visual_tag |-> r.visual_tag, species |-> The(r.species),
                  status |-> The(r.status), mob_id |-> r.mob_id,
                  dam_id |-> r.dam_id, sire_id |-> r.sire_id])
    ELSE None

delete_animal(d, animal_id) == DeleteFrom(d, "animals", animal_id)

(* save_product as it would be if a product's day counts were pushed into  *)
(* the treatments already recorded with it.                                *)
save_product_recomputing(d, product, t) ==
    LET r == IF product.id = None
             THEN InsertInto(d, "products",
                    [name |-> product.name,
                     meat_whp_days |-> product.meat_whp_days,
                     milk_whp_days |-> product.milk_whp_days,
                     esi_days |-> product.esi_days,
                     created_at |-> Some(t), updated_at |-> Some(t)])
             ELSE UpdateWhere(d, "products", The(product.id),
                    [d.products[The(product.id)] EXCEPT
                        !.name = product.name,
                        !.meat_whp_days = product.meat_whp_days,
                        !.milk_whp_days = product.milk_whp_days,
                        !.esi_days = product.esi_days,
                        !.updated_at = Some(t)])
        end(row, days) ==
            IF days > 0
            THEN {x + days : x \in r.db.events[The(row.event_id)].event_date}
            ELSE None
        rows == r.db.treatment_events
    IN [r EXCEPT !.db.treatment_events =
           [i \in DOMAIN rows |->
               IF rows[i].product_id = product.id /\ product.id # None
               THEN [rows[i] EXCEPT
                        !.meat_whp_end = end(rows[i], product.meat_whp_days),
                        !.milk_whp_end = end(rows[i], product.milk_whp_days),
                        !.esi_end = end(rows[i], product.esi_days)]
               ELSE rows[i]]]

save_product(d, product, t) ==
    IF product.id = None
    THEN InsertInto(d, "products",
                    [name |-> product.name,
                     meat_whp_days |-> product.meat_whp_days,
                     milk_whp_days |-> product.milk_whp_days,
                     esi_days |-> product.esi_days,
                     created_at |-> Some(t), updated_at |-> Some(t)])
    ELSE LET id == The(product.id)
         IN UpdateWhere(d, "products", id,
                        [d.products[id] EXCEPT
                            !.name = product.name,
                            !.meat_whp_days = product.meat_whp_days,
                            !.milk_whp_days = product.milk_whp_days,
                            !.esi_days = product.esi_days,
                            !.updated_at = Some(t)])

(* _row_to_product *)
get_product(d, product_id) ==
    IF product_id \in Ids(d, "products")
    THEN LET r == d.products[product_id]
         IN Some([id |-> Some(product_id), name |-> r.name,
                  meat_whp_days |-> r.meat_whp_days,
                  milk_whp_days |-> r.milk_whp_days,
                  esi_days |-> r.esi_days])
    ELSE None

delete_product(d, product_id) == DeleteFrom(d, "products", product_id)

(***************************************************************************)
(* Events and their typed detail rows.                                     *)
(***************************************************************************)
save_event(d, event, t) ==
    IF event.id = None
    THEN InsertInto(d, "events",
                    [event_type |-> Some(event.event_type),
                     event_date |-> event.event_date,
                     animal_id |-> event.animal_id,
                     mob_id |-> event.mob_id,
                     created_at |-> Some(t)])
    ELSE LET id == The(event.id)
         IN UpdateWhere(d, "events", id,
                        [d.events[id] EXCEPT
                            !.event_type = Some(event.event_type),
                            !.event_date = event.event_date,
                            !.animal_id = event.animal_id,
                            !.mob_id = event.mob_id])

(* The second half of save_<type>_event: the event has been saved and      *)
(* committed (store e.db, identity e.id); now the detail row is inserted   *)
(* (detail.id None; new_row carries event_id) or updated by its own id     *)
(* (set_row leaves event_id as stored).  The result's db is the store the  *)
(* call leaves behind, also when the detail statement raises.              *)
save_detail(e, table, detail, new_row, set_row) ==
    LET r == IF detail.id = None
             THEN InsertInto(e.db, table, new_row)
             ELSE UpdateWhere(e.db, table, The(detail.id), set_row)
    IN [db |-> r.db, raised |-> r.raised, id |-> e.id, detail_id |-> r.id]

save_movement_event(d, event, movement, t) ==
    LET e == save_event(d, [event EXCEPT !.event_type = "movement"], t)
    IN IF e.raised
       THEN [db |-> e.db, raised |-> TRUE, id |-> event.id, detail_id |-> movement.id]
       ELSE save_detail(e, "movement_events", movement,
                [event_id |-> e.id,
                 from_paddock_id |-> movement.from_paddock_id,
                 to_paddock_id |-> movement.to_paddock_id,
                 head_count |-> movement.head_count],
                [e.db.movement_events[The(movement.id)] EXCEPT
                    !.from_paddock_id = movement.from_paddock_id,
                    !.to_paddock_id = movement.to_paddock_id,
                    !.head_count = movement.head_count])

save_treatment_event(d, event, treatment, t) ==
    LET e == save_event(d, [event EXCEPT !.event_type = "treatment"], t)
    IN IF e.raised
       THEN [db |-> e.db, raised |-> TRUE, id |-> event.id, detail_id |-> treatment.id]
       ELSE save_detail(e, "treatment_events", treatment,
                [event_id |-> e.id,
                 product_id |-> treatment.product_id,
                 meat_whp_end |-> treatment.meat_whp_end,
                 milk_whp_end |-> treatment.milk_whp_end,
                 esi_end |-> treatment.esi_end],
                [e.db.treatment_events[The(treatment.id)] EXCEPT
                    !.product_id = treatment.product_id,
                    !.meat_whp_end = treatment.meat_whp_end,
                    !.milk_whp_end = treatment.milk_whp_end,
                    !.esi_end = treatment.esi_end])

save_weigh_event(d, event, weigh, t) ==
    LET e == save_event(d, [event EXCEPT !.event_type = "weigh"], t)
    IN IF e.raised
       THEN [db |-> e.db, raised |-> TRUE, id |-> event.id, detail_id |-> weigh.id]
       ELSE save_detail(e, "weigh_events", weigh,
                [event_id |-> e.id, weight_kg |-> weigh.weight_kg],
                [e.db.weigh_events[The(weigh.id)] EXCEPT
                    !.weight_kg = weigh.weight_kg])

(* SELECT * FROM <detail table> WHERE event_id = ?, fetchone(): the table  *)
(* is scanned in rowid order, so of several rows the lowest id is read.    *)
DetailIds(d, table, event_id) ==
    {i \in Ids(d, table) : d[table][i].event_id = Some(event_id)}

get_details(d, table, event_id) ==
    LET ids == DetailIds(d, table, event_id)
    IN IF ids = {}
       THEN None
       ELSE LET i == CHOOSE i \in ids : \A j \in ids : i <= j
            IN Some([id |-> Some(i)] @@ d[table][i])

get_movement_details(d, event_id) == get_details(d, "movement_events", event_id)
get_treatment_details(d, event_id) == get_details(d, "treatment_events", event_id)
get_weigh_details(d, event_id) == get_details(d, "weigh_events", event_id)

(***************************************************************************)
(* Withholding periods.  The result is a list of rows; treatment_id is not *)
(* a selected column: it keeps apart the rows of two treatment_events rows *)
(* that agree on every selected column.                                    *)
(***************************************************************************)
StrictlyAfter(end_date, as_of_date) == \E e \in end_date : e > as_of_date

(* t.<x>_end >= ?: never true of a NULL end date *)
OnOrAfter(end_date, as_of_date) == \E e \in end_date : e >= as_of_date

(* the join that also reaches the animals of the mob an event names *)
whp_join_through_mob(d) ==
    { j \in Ids(d, "treatment_events") \X Ids(d, "events") \X Ids(d, "animals") :
        /\ d.treatment_events[j[1]].event_id = Some(j[2])
        /\ \/ d.events[j[2]].animal_id = Some(j[3])
           \/ /\ d.events[j[2]].mob_id # None
              /\ d.events[j[2]].mob_id = d.animals[j[3]].mob_id }

(* FROM treatment_events t JOIN events e ON t.event_id = e.id              *)
(*                         JOIN animals a ON e.animal_id = a.id            *)
whp_join(d) ==
    { j \in Ids(d, "treatment_events") \X Ids(d, "events") \X Ids(d, "animals") :
        /\ d.treatment_events[j[1]].event_id = Some(j[2])
        /\ d.events[j[2]].animal_id = Some(j[3]) }

(* The selected columns; LEFT JOIN products p ON t.product_id = p.id *)
whp_row(d, j) ==
    [treatment_id |-> j[1],
     animal_id |-> j[3],
     event_id |-> j[2],
     event_date |-> d.events[j[2]].event_date,
     meat_whp_end |-> d.treatment_events[j[1]].meat_whp_end,
     milk_whp_end |-> d.treatment_events[j[1]].milk_whp_end,
     esi_end |-> d.treatment_events[j[1]].esi_end,
     product_name |->
         IF d.treatment_events[j[1]].product_id \cap Ids(d, "products") # {}
         THEN d.products[The(d.treatment_events[j[1]].product_id)].name
         ELSE None]

get_animals_on_whp_any_status(d, as_of_date) ==
    { whp_row(d, j) :
        j \in { j \in whp_join(d) :
                  \/ OnOrAfter(d.treatment_events[j[1]].meat_whp_end, as_of_date)
                  \/ OnOrAfter(d.treatment_events[j[1]].milk_whp_end, as_of_date)
                  \/ OnOrAfter(d.treatment_events[j[1]].esi_end, as_of_date) } }

get_animals_on_whp(d, as_of_date) ==
    { whp_row(d, j) :
        j \in { j \in whp_join(d) :
                  /\ d.animals[j[3]].status = Some("alive")
                  /\ \/ OnOrAfter(d.treatment_events[j[1]].meat_whp_end, as_of_date)
                     \/ OnOrAfter(d.treatment_events[j[1]].milk_whp_end, as_of_date)
                     \/ OnOrAfter(d.treatment_events[j[1]].esi_end, as_of_date) } }

(***************************************************************************)
(* Tasks and the property settings.                                        *)
(***************************************************************************)
save_task(d, task, t) ==
    IF task.id = None
    THEN InsertInto(d, "tasks",
                    [title |-> task.title, due_date |-> task.due_date,
                     source_event_id |-> task.source_event_id,
                     animal_id |-> task.animal_id, mob_id |-> task.mob_id,
                     completed |-> IF task.completed THEN 1 ELSE 0,
                     completed_at |-> task.completed_at,
                     created_at |-> Some(t)])
    ELSE LET id == The(task.id)
         IN UpdateWhere(d, "tasks", id,
                        [d.tasks[id] EXCEPT
                            !.title = task.title,
                            !.due_date = task.due_date,
                            !.source_event_id = task.source_event_id,
                            !.animal_id = task.animal_id,
                            !.mob_id = task.mob_id,
                            !.completed = IF task.completed THEN 1 ELSE 0,
                            !.completed_at = task.completed_at])

delete_task(d, task_id) == DeleteFrom(d, "tasks", task_id)

save_property_settings(d, settings, t) ==
    IF settings.id = None
    THEN InsertInto(d, "property_settings",
                    [property_name |-> settings.property_name,
                     created_at |-> Some(t), updated_at |-> Some(t)])
    ELSE LET id == The(settings.id)
         IN UpdateWhere(d, "property_settings", id,
                        [d.property_settings[id] EXCEPT
                            !.property_name = settings.property_name,
                            !.updated_at = Some(t)])

(***************************************************************************)
(* Dialog handlers (ui/dialogs/quick_actions.py).  A dialog is modal: its  *)
(* _on_accept runs to its end, or to the statement that raises, before     *)
(* anything else touches the store.                                        *)
(***************************************************************************)
whp_end_always(event_date, days) == Some(event_date + days)

(* if product.<x>_days > 0: <x>_end = event_date + timedelta(days=...) *)
whp_end(event_date, days) ==
    IF days > 0 THEN Some(event_date + days) ELSE None

RECURSIVE treat_each(_, _, _, _, _)
treat_each(d, animal_ids, event_date, treatment, t) ==
    IF animal_ids = <<>>
    THEN [db |-> d, raised |-> FALSE]
    ELSE LET r == save_treatment_event(d,
                      [id |-> None, event_type |-> "note",
                       event_date |-> Some(event_date),
                       animal_id |-> Some(Head(animal_ids)),
                       mob_id |-> None],
                      treatment, t)
         IN IF r.raised
            THEN [db |-> r.db, raised |-> TRUE]
            ELSE treat_each(r.db, Tail(animal_ids), event_date, treatment, t)

QuickTreatmentDialog_on_accept(d, animal_ids, product_id, event_date, t) ==
    IF product_id = None
    THEN [db |-> d, raised |-> FALSE]
    ELSE LET product == get_product(d, The(product_id))
             days(field) == IF product # None THEN The(product)[field] ELSE 0
         IN treat_each(d, animal_ids, event_date,
                [id |-> None, event_id |-> None, product_id |-> product_id,
                 meat_whp_end |-> whp_end(event_date, days("meat_whp_days")),
                 milk_whp_end |-> whp_end(event_date, days("milk_whp_days")),
                 esi_end |-> whp_end(event_date, days("esi_days"))],
                t)

RECURSIVE QuickStatusDialog_on_accept(_, _, _, _)
QuickStatusDialog_on_accept(d, animal_ids, new_status, t) ==
    IF animal_ids = <<>>
    THEN [db |-> d, raised |-> FALSE]
    ELSE LET animal == get_animal(d, Head(animal_ids))
             r == IF animal # None
                  THEN save_animal(d, [The(animal) EXCEPT !.status = new_status], t)
                  ELSE [db |-> d, raised |-> FALSE]
         IN IF r.raised
            THEN [db |-> r.db, raised |-> TRUE]
            ELSE QuickStatusDialog_on_accept(r.db, Tail(animal_ids), new_status, t)

(* The rows selected in the animals table, in selection order. *)
Selections(ids) ==
    { sel \in UNION { [1..n -> ids] : n \in 1..MaxSelection } :
        \A i, j \in DOMAIN sel : i # j => sel[i] # sel[j] }

(***************************************************************************)
(* State machine.  db is the store file, now the wall clock, last the      *)
(* call most recently made, with its arguments and outcome; files holds    *)
(* the content of each backup file (None: no such file) and conn tells     *)
(* whether the Database object holds an open connection.  Every method     *)
(* that reaches the store goes through the conn property, which connects   *)
(* when there is no connection.                                            *)
(***************************************************************************)
Paths == {"backup.db"}

Init ==
    /\ db = EmptyDb
    /\ now = 1
    /\ last = [op |-> "connect"]
    /\ files = [p \in Paths |-> None]
    /\ conn = TRUE

Issued(table) == 1 .. db.seq[table]

(* given is the identity the call was handed, id the one it left, named   *)
(* the rows its other arguments refer to, as <<table, id>>.                *)
Named(table, ref) == {<<table, i>> : i \in ref}

Call(op, given, named, r) ==
    /\ db' = r.db
    /\ last' = [op |-> op, given |-> given, named |-> named,
                raised |-> r.raised, id |-> r.id]
    /\ conn' = TRUE
    /\ UNCHANGED <<now, files>>

Tick ==
    /\ now < MaxNow
    /\ now' = now + 1
    /\ last' = [op |-> "clock"]
    /\ UNCHANGED <<db, files, conn>>

(***************************************************************************)
(* Withholding periods: products, animals, the treatment dialog and the    *)
(* status dialog.                                                          *)
(***************************************************************************)
(* Days of 2024 as ordinals: Date2024(1, 1) = 1. *)
RECURSIVE DaysBefore2024(_)
DaysBefore2024(month) ==
    IF month = 1
    THEN 0
    ELSE DaysBefore2024(month - 1)
         + <<31, 29, 31, 30, 31, 30, 31, 31, 30, 31, 30, 31>>[month - 1]

Date2024(month, day) == DaysBefore2024(month) + day

WhpDays == {<<0, 0, 0>>, <<1, 0, 2>>, <<28, 0, 0>>}
EventDates == {Date2024(1, 10)}
AsOfDates ==
    (Date2024(1, 9) .. Date2024(1, 13)) \cup (Date2024(2, 6) .. Date2024(2, 9))

NewAnimal ==
    [id |-> None, eid |-> <<>>, visual_tag |-> <<"A">>, species |-> "cattle",
     status |-> "alive", mob_id |-> None, dam_id |-> None, sire_id |-> None]

AddAnimal ==
    /\ db.seq.animals < MaxAnimals
    /\ Call("save_animal", None, {}, save_animal(db, NewAnimal, now))

SaveProduct ==
    \E id \in {None} \cup {Some(p) : p \in Issued("products")}, w \in WhpDays :
        LET product == [id |-> id, name |-> Some("P"),
                        meat_whp_days |-> w[1], milk_whp_days |-> w[2],
                        esi_days |-> w[3]]
        IN /\ id = None => db.seq.products < MaxProducts
           /\ Call("save_product", id, {}, save_product(db, product, now))

TreatmentDialogAccept ==
    \E animal_ids \in Selections(Issued("animals")),
       product_id \in {None} \cup {Some(p) : p \in Ids(db, "products")},
       event_date \in EventDates :
        LET r == QuickTreatmentDialog_on_accept(db, animal_ids, product_id,
                                                event_date, now)
        IN /\ db.seq.treatment_events + Len(animal_ids) <= MaxTreatments
           /\ db' = r.db
           /\ last' = [op |-> "QuickTreatmentDialog", raised |-> r.raised,
                       treatments |-> Ids(r.db, "treatment_events")
                                         \ Ids(db, "treatment_events")]
           /\ conn' = TRUE
           /\ UNCHANGED <<now, files>>

StatusDialogAccept ==
    \E animal_ids \in Selections(Issued("animals")), new_status \in AnimalStatus :
        LET r == QuickStatusDialog_on_accept(db, animal_ids, new_status, now)
        IN /\ db' = r.db
           /\ last' = [op |-> "QuickStatusDialog", raised |-> r.raised,
                       animal_ids |-> {animal_ids[i] : i \in DOMAIN animal_ids},
                       new_status |-> new_status,
                       changed |-> {a \in Ids(db, "animals") :
                                       db.animals[a].status # r.db.animals[a].status}]
           /\ conn' = TRUE
           /\ UNCHANGED <<now, files>>

NextWhp == AddAnimal \/ SaveProduct \/ TreatmentDialogAccept \/ StatusDialogAccept

SpecWhp == Init /\ [][NextWhp]_vars

(***************************************************************************)
(* Properties of the withholding-period rules (SpecWhp).                   *)
(***************************************************************************)
OnWhpAnimals(d, as_of_date) ==
    {r.animal_id : r \in get_animals_on_whp(d, as_of_date)}

(* The treatment rows of animal a, read from the tables. *)
TreatmentsOf(d, a) ==
    {t \in Ids(d, "treatment_events") :
        \E e \in d.treatment_events[t].event_id \cap Ids(d, "events") :
            d.events[e].animal_id = Some(a)}

EndDates(d, t) ==
    d.treatment_events[t].meat_whp_end \cup d.treatment_events[t].milk_whp_end
        \cup d.treatment_events[t].esi_end

HasUnexpiredTreatment(d, a, as_of_date) ==
    \E t \in TreatmentsOf(d, a) : \E x \in EndDates(d, t) : x >= as_of_date

(* What the treatment dialog just stored in row t: the animal, the event   *)
(* date and the product it was recorded with.                              *)
Stored(t) ==
    LET tr == db.treatment_events[t]
        e == db.events[The(tr.event_id)]
    IN [animal |-> The(e.animal_id), date |-> The(e.event_date),
        product |-> db.products[The(tr.product_id)], row |-> tr]

(* C1 as stated: for a product with meat_whp_days = d > 0 and an alive     *)
(* animal treated through the treatment dialog on date t, the animal is in *)
(* get_animals_on_whp(t) and get_animals_on_whp(t + d) and not in          *)
(* get_animals_on_whp(t + d + 1).                                          *)
C1_ExcludedAfterMeatWhp ==
    last.op = "QuickTreatmentDialog" =>
        \A t \in last.treatments :
            LET s == Stored(t)
                d == s.product.meat_whp_days
            IN (d > 0 /\ db.animals[s.animal].status = Some("alive")) =>
                  /\ s.animal \in OnWhpAnimals(db, s.date)
                  /\ s.animal \in OnWhpAnimals(db, s.date + d)
                  /\ s.animal \notin OnWhpAnimals(db, s.date + d + 1)

(* C1 amended: the animal is in the result for as_of = t and t + d; it is  *)
(* out of it for as_of = t + d + 1 when the product's milk_whp_days and    *)
(* esi_days are at most d and no other treatment of the animal has an end  *)
(* date on or after t + d + 1.                                             *)
C1_WhpWindow ==
    last.op = "QuickTreatmentDialog" =>
        \A t \in last.treatments :
            LET s == Stored(t)
                d == s.product.meat_whp_days
            IN (d > 0 /\ db.animals[s.animal].status = Some("alive")) =>
                  /\ s.animal \in OnWhpAnimals(db, s.date)
                  /\ s.animal \in OnWhpAnimals(db, s.date + d)
                  /\ ( /\ s.product.milk_whp_days <= d
                       /\ s.product.esi_days <= d
                       /\ \A t2 \in TreatmentsOf(db, s.animal) \ {t} :
                             \A x \in EndDates(db, t2) : x < s.date + d + 1 )
                     => s.animal \notin OnWhpAnimals(db, s.date + d + 1)

(* An alive animal just treated with a 28-day product, having an older     *)
(* treatment as well, and out of the result the day after the 28 days.     *)
C1_Witness ==
    /\ last.op = "QuickTreatmentDialog"
    /\ \E t \in last.treatments :
          /\ Stored(t).product.meat_whp_days = 28
          /\ db.animals[Stored(t).animal].status = Some("alive")
          /\ TreatmentsOf(db, Stored(t).animal) # {t}
          /\ Stored(t).animal \in OnWhpAnimals(db, Stored(t).date + 28)
          /\ Stored(t).animal \notin OnWhpAnimals(db, Stored(t).date + 29)

(* C2: every treatment detail row the dialog stores has                    *)
(* meat_whp_end = event date + meat_whp_days when meat_whp_days > 0 and    *)
(* NULL otherwise, and likewise milk_whp_end and esi_end.                  *)
C2_StoredEndDates ==
    last.op = "QuickTreatmentDialog" =>
        \A t \in last.treatments :
            LET s == Stored(t)
                Expected(days) == IF days > 0 THEN {s.date + days} ELSE {}
            IN /\ s.row.meat_whp_end = Expected(s.product.meat_whp_days)
               /\ s.row.milk_whp_end = Expected(s.product.milk_whp_days)
               /\ s.row.esi_end = Expected(s.product.esi_days)

(* A 28-day meat WHP recorded on 2024-01-10 is stored as 2024-02-07, with  *)
(* no milk or ESI end date; two animals were treated in the one dialog.    *)
C2_Witness ==
    /\ last.op = "QuickTreatmentDialog"
    /\ Cardinality(last.treatments) = 2
    /\ \E t \in last.treatments :
          /\ Stored(t).date = Date2024(1, 10)
          /\ Stored(t).product.meat_whp_days = 28
          /\ Stored(t).row.meat_whp_end = Some(Date2024(2, 7))
          /\ Stored(t).row.milk_whp_end = None

(* C3: save_product leaves every stored treatment detail as it was, and    *)
(* with it the set of animals get_animals_on_whp returns for each date.    *)
C3_ProductChangeKeepsTreatments ==
    [][last'.op = "save_product" =>
          /\ db'.treatment_events = db.treatment_events
          /\ \A as_of \in AsOfDates :
                OnWhpAnimals(db', as_of) = OnWhpAnimals(db, as_of)]_vars

(* A product was re-saved with day counts other than those a treatment     *)
(* recorded with it was computed from, while that treatment's animal is on *)
(* WHP.                                                                    *)
C3_Witness ==
    /\ last.op = "save_product"
    /\ ~last.raised
    /\ \E t \in Ids(db, "treatment_events") :
          /\ db.treatment_events[t].product_id = last.id
          /\ Stored(t).row.meat_whp_end = Some(Stored(t).date + 28)
          /\ Stored(t).product.meat_whp_days = 1
          /\ Stored(t).animal \in OnWhpAnimals(db, Stored(t).date + 28)

(* C4: every row get_animals_on_whp returns is of an alive animal and of a *)
(* treatment with an end date on or after as_of; animals the status dialog *)
(* sets to sold, dead or missing are not in the result, and animals it     *)
(* sets to alive are in it exactly when they have such a treatment.        *)
C4_OnlyAliveUnexpired ==
    \A as_of \in AsOfDates :
        /\ \A r \in get_animals_on_whp(db, as_of) :
              /\ r.animal_id \in Ids(db, "animals")
              /\ db.animals[r.animal_id].status = Some("alive")
              /\ r.treatment_id \in TreatmentsOf(db, r.animal_id)
              /\ \E x \in EndDates(db, r.treatment_id) : x >= as_of
        /\ last.op = "QuickStatusDialog" =>
              \A a \in last.animal_ids \cap Ids(db, "animals") :
                  IF last.new_status = "alive"
                  THEN a \in OnWhpAnimals(db, as_of)
                          <=> HasUnexpiredTreatment(db, a, as_of)
                  ELSE a \notin OnWhpAnimals(db, as_of)

(* An animal with an unexpired treatment was not alive, has been set back  *)
(* to alive and is in the result again.                                    *)
C4_Witness ==
    /\ last.op = "QuickStatusDialog"
    /\ last.new_status = "alive"
    /\ \E a \in last.changed : a \in OnWhpAnimals(db, Date2024(1, 10))

(***************************************************************************)
(* The persistence layer called directly: every save_<entity> and          *)
(* delete_<entity>, with an identity unset, of a stored row or of a row    *)
(* since deleted, and with references to rows that exist or not.           *)
(***************************************************************************)
Rows == db.seq.property_settings + db.seq.paddocks + db.seq.mobs
        + db.seq.animals + db.seq.products + db.seq.events
        + db.seq.movement_events + db.seq.treatment_events
        + db.seq.weigh_events + db.seq.tasks

Ref(table) == {None} \cup {Some(i) : i \in Issued(table)}
Names == {Some("a"), Some("b")}

(* An insert needs room for n more rows. *)
Room(id, n) == id = None => Rows + n <= MaxRows

SavePaddock ==
    \E id \in Ref("paddocks"), name \in Names :
        /\ Room(id, 1)
        /\ Call("save_paddock", id, {},
                save_paddock(db, [id |-> id, name |-> name], now))

SaveMob ==
    \E id \in Ref("mobs"), paddock_id \in Ref("paddocks") :
        /\ Room(id, 1)
        /\ Call("save_mob", id, Named("paddocks", paddock_id),
                save_mob(db, [id |-> id, name |-> Some("a"), species |-> "cattle",
                              current_paddock_id |-> paddock_id], now))

SaveAnimal ==
    \E id \in Ref("animals"), status \in {"alive", "sold"},
       mob_id \in Ref("mobs"), dam_id \in Ref("animals") :
        /\ Room(id, 1)
        /\ Call("save_animal", id,
                Named("mobs", mob_id) \cup Named("animals", dam_id),
                save_animal(db, [NewAnimal EXCEPT !.id = id, !.status = status,
                                                  !.mob_id = mob_id,
                                                  !.dam_id = dam_id], now))

SaveProductRow ==
    \E id \in Ref("products"), days \in {0, 28} :
        /\ Room(id, 1)
        /\ Call("save_product", id, {},
                save_product(db, [id |-> id, name |-> Some("P"),
                                  meat_whp_days |-> days, milk_whp_days |-> 0,
                                  esi_days |-> 0], now))

SaveEvent ==
    \E id \in Ref("events"), animal_id \in Ref("animals"), mob_id \in Ref("mobs") :
        /\ Room(id, 1)
        /\ Call("save_event", id,
                Named("animals", animal_id) \cup Named("mobs", mob_id),
                save_event(db, [id |-> id, event_type |-> "note",
                                event_date |-> Some(Date2024(1, 10)),
                                animal_id |-> animal_id, mob_id |-> mob_id], now))

SaveTask ==
    \E id \in Ref("tasks"), animal_id \in Ref("animals"),
       source_event_id \in Ref("events") :
        /\ Room(id, 1)
        /\ Call("save_task", id,
                Named("animals", animal_id) \cup Named("events", source_event_id),
                save_task(db, [id |-> id, title |-> Some("T"), due_date |-> None,
                               source_event_id |-> source_event_id,
                               animal_id |-> animal_id, mob_id |-> None,
                               completed |-> FALSE, completed_at |-> None], now))

SavePropertySettings ==
    \E id \in Ref("property_settings"), name \in Names :
        /\ Room(id, 1)
        /\ Call("save_property_settings", id, {},
                save_property_settings(db, [id |-> id, property_name |-> name], now))

(* A treatment recorded directly: a new event and its new detail row. *)
SaveNewTreatment ==
    \E animal_id \in Ref("animals"), product_id \in Issued("products") :
        /\ Room(None, 2)
        /\ Call("save_treatment_event", None,
                Named("animals", animal_id) \cup {<<"products", product_id>>},
                save_treatment_event(db,
                    [id |-> None, event_type |-> "note",
                     event_date |-> Some(Date2024(1, 10)),
                     animal_id |-> animal_id, mob_id |-> None],
                    [id |-> None, product_id |-> Some(product_id),
                     meat_whp_end |-> None, milk_whp_end |-> None,
                     esi_end |-> None], now))

DeletePaddock ==
    \E id \in Issued("paddocks") :
        Call("delete_paddock", Some(id), {}, delete_paddock(db, id))

DeleteMob ==
    \E id \in Issued("mobs") : Call("delete_mob", Some(id), {}, delete_mob(db, id))

DeleteAnimal ==
    \E id \in Issued("animals") :
        Call("delete_animal", Some(id), {}, delete_animal(db, id))

DeleteProduct ==
    \E id \in Issued("products") :
        Call("delete_product", Some(id), {}, delete_product(db, id))

DeleteTask ==
    \E id \in Issued("tasks") : Call("delete_task", Some(id), {}, delete_task(db, id))

NextCrud ==
    \/ Tick
    \/ SavePaddock \/ SaveMob \/ SaveAnimal \/ SaveProductRow \/ SaveEvent
    \/ SaveTask \/ SavePropertySettings \/ SaveNewTreatment
    \/ DeletePaddock \/ DeleteMob \/ DeleteAnimal \/ DeleteProduct \/ DeleteTask

SpecCrud == Init /\ [][NextCrud]_vars

(***************************************************************************)
(* Events saved directly: save_event and the three save_<type>_event       *)
(* methods, each with the event's identity and the detail's identity unset *)
(* or set, a required value present or NULL, and references to paddocks    *)
(* and products that exist or not.                                         *)
(***************************************************************************)
DetailTable ==
    [save_movement_event |-> "movement_events",
     save_treatment_event |-> "treatment_events",
     save_weigh_event |-> "weigh_events"]

CallTyped(op, event, detail, named, r) ==
    /\ db' = r.db
    /\ last' = [op |-> op, given |-> event.id, named |-> named,
                raised |-> r.raised, id |-> r.id,
                detail |-> detail, detail_id |-> r.detail_id]
    /\ conn' = TRUE
    /\ UNCHANGED <<now, files>>

(* The rows a typed save inserts: an event and a detail, if given no id. *)
RoomTyped(event_id, detail_id) ==
    Rows + (IF event_id = None THEN 1 ELSE 0)
         + (IF detail_id = None THEN 1 ELSE 0) <= MaxRows

EventDatesOrNull == {Some(Date2024(1, 10)), None}

NewEvent(id, event_date) ==
    [id |-> id, event_type |-> "note", event_date |-> event_date,
     animal_id |-> None, mob_id |-> None]

AddPaddock ==
    /\ Room(None, 1)
    /\ Call("save_paddock", None, {},
            save_paddock(db, [id |-> None, name |-> Some("a")], now))

AddProduct ==
    /\ Room(None, 1)
    /\ Call("save_product", None, {},
            save_product(db, [id |-> None, name |-> Some("P"),
                              meat_whp_days |-> 0, milk_whp_days |-> 0,
                              esi_days |-> 0], now))

SaveEventOfType ==
    \E id \in Ref("events"), event_type \in {"note", "weigh"},
       event_date \in EventDatesOrNull :
        /\ Room(id, 1)
        /\ Call("save_event", id, {},
                save_event(db, [NewEvent(id, event_date) EXCEPT
                                   !.event_type = event_type], now))

SaveMovementEvent ==
    \E id \in Ref("events"), event_date \in EventDatesOrNull,
       detail_id \in Ref("movement_events"), to_paddock_id \in {None, Some(1)} :
        LET movement == [id |-> detail_id, from_paddock_id |-> None,
                         to_paddock_id |-> to_paddock_id, head_count |-> 0]
        IN /\ RoomTyped(id, detail_id)
           /\ CallTyped("save_movement_event", NewEvent(id, event_date), movement,
                        Named("paddocks", to_paddock_id),
                        save_movement_event(db, NewEvent(id, event_date),
                                            movement, now))

SaveTreatmentEvent ==
    \E id \in Ref("events"), event_date \in EventDatesOrNull,
       detail_id \in Ref("treatment_events"), product_id \in {None, Some(1)} :
        LET treatment == [id |-> detail_id, product_id |-> product_id,
                          meat_whp_end |-> None, milk_whp_end |-> None,
                          esi_end |-> None]
        IN /\ RoomTyped(id, detail_id)
           /\ CallTyped("save_treatment_event", NewEvent(id, event_date), treatment,
                        Named("products", product_id),
                        save_treatment_event(db, NewEvent(id, event_date),
                                             treatment, now))

SaveWeighEvent ==
    \E id \in Ref("events"), event_date \in EventDatesOrNull,
       detail_id \in Ref("weigh_events"), weight_kg \in {None, Some(300)} :
        LET weigh == [id |-> detail_id, weight_kg |-> weight_kg]
        IN /\ RoomTyped(id, detail_id)
           /\ CallTyped("save_weigh_event", NewEvent(id, event_date), weigh, {},
                        save_weigh_event(db, NewEvent(id, event_date), weigh, now))

NextEvents ==
    \/ AddPaddock \/ AddProduct \/ SaveEventOfType
    \/ SaveMovementEvent \/ SaveTreatmentEvent \/ SaveWeighEvent

SpecEvents == Init /\ [][NextEvents]_vars

(***************************************************************************)
(* Saving and deleting single rows.                                        *)
(***************************************************************************)
SaveTable ==
    [save_paddock |-> "paddocks", save_mob |-> "mobs", save_animal |-> "animals",
     save_product |-> "products", save_event |-> "events", save_task |-> "tasks",
     save_property_settings |-> "property_settings"]

DeleteTable ==
    [delete_animal |-> "animals", delete_mob |-> "mobs",
     delete_product |-> "products", delete_paddock |-> "paddocks"]

(* C5: a save_<entity> of a paddock, mob, animal, product, event, task or   *)
(* the property settings that returns normally with no identity given adds *)
(* exactly one row, under an identity no row of the table held, stamped    *)
(* with the time of creation, and leaves the other rows as they were; with *)
(* an identity given it leaves the set of rows of the table and every other*)
(* row unchanged, keeps the identity and keeps the row's creation time.    *)
C5_SaveInsertsOnceThenUpdates ==
    [][ (last'.op \in DOMAIN SaveTable /\ ~last'.raised) =>
          LET old == db[SaveTable[last'.op]]
              new == db'[SaveTable[last'.op]]
          IN IF last'.given = None
             THEN /\ last'.id # None
                  /\ last'.id \cap DOMAIN old = {}
                  /\ DOMAIN new = DOMAIN old \cup last'.id
                  /\ Cardinality(DOMAIN new) = Cardinality(DOMAIN old) + 1
                  /\ \A i \in DOMAIN old : new[i] = old[i]
                  /\ new[The(last'.id)].created_at = Some(now)
             ELSE /\ last'.id = last'.given
                  /\ DOMAIN new = DOMAIN old
                  /\ \A i \in DOMAIN old \ last'.given : new[i] = old[i]
                  /\ \A i \in DOMAIN old \cap last'.given :
                         new[i].created_at = old[i].created_at
      ]_vars

(* A paddock inserted at time 1 as "a" has been saved again at time 2 as   *)
(* "b" under its identity, after a second paddock was inserted and the     *)
(* table then holds two rows.                                              *)
C5_Witness ==
    /\ last.op = "save_paddock" /\ last.given = Some(1) /\ ~last.raised
    /\ DOMAIN db.paddocks = {1, 2}
    /\ db.paddocks[1].name = Some("b")
    /\ db.paddocks[1].created_at = Some(1)
    /\ db.paddocks[1].updated_at = Some(2)

(* C7: delete_animal, delete_mob, delete_product and delete_paddock remove *)
(* at most the addressed row of their own table and change nothing else;   *)
(* in particular no animal, event, detail or task row goes with it.        *)
C7_DeleteRemovesAtMostOneRow ==
    [][ last'.op \in DOMAIN DeleteTable =>
          /\ db'.seq = db.seq
          /\ \A table \in Tables :
                /\ DOMAIN db'[table] \subseteq DOMAIN db[table]
                /\ \A i \in DOMAIN db[table] :
                      \/ table = DeleteTable[last'.op] /\ Some(i) = last'.given
                      \/ i \in DOMAIN db'[table] /\ db'[table][i] = db[table][i]
      ]_vars

(* delete_mob was called on a mob an animal is assigned to: the animal is  *)
(* still stored and still assigned.                                        *)
C7_Witness ==
    /\ last.op = "delete_mob" /\ last.given = Some(1)
    /\ \E a \in Ids(db, "animals") : db.animals[a].mob_id = Some(1)

(* The row id of table is referred to by a row other than itself. *)
Referenced(d, table, id) ==
    /\ id \in Ids(d, table)
    /\ ~ForeignKeysOk([d EXCEPT ![table] = [i \in DOMAIN @ \ {id} |-> @[i]]])

SaveOps == DOMAIN SaveTable \cup DOMAIN DetailTable

(* C6: after every step every non-null reference in the store points to an *)
(* existing row; a delete_<entity> of a row that is still referred to      *)
(* raises and changes nothing; a save whose arguments name a row that does *)
(* not exist raises and changes nothing.                                   *)
C6_ReferencesExistOrCallRejected ==
    [][ /\ ForeignKeysOk(db')
        /\ (/\ last'.op \in DOMAIN DeleteTable
            /\ Referenced(db, DeleteTable[last'.op], The(last'.given)))
              => last'.raised /\ db' = db
        /\ (/\ last'.op \in SaveOps
            /\ \E n \in last'.named : n[2] \notin Ids(db, n[1]))
              => last'.raised /\ db' = db
      ]_vars

(***************************************************************************)
(* Events and their detail rows.                                           *)
(***************************************************************************)
TypedTable ==
    [movement |-> "movement_events", treatment |-> "treatment_events",
     weigh |-> "weigh_events"]

(* C8: in every reachable state every movement, treatment or weigh event   *)
(* has a detail row in the matching table, and every detail row belongs to *)
(* an existing event of the matching type.                                 *)
C8_TypedEventHasDetail ==
    /\ \A e \in Ids(db, "events") :
          \A type \in DOMAIN TypedTable :
              db.events[e].event_type = Some(type)
                  => DetailIds(db, TypedTable[type], e) # {}
    /\ \A type \in DOMAIN TypedTable :
          \A i \in Ids(db, TypedTable[type]) :
              \E e \in Ids(db, "events") :
                  /\ db[TypedTable[type]][i].event_id = Some(e)
                  /\ db.events[e].event_type = Some(type)

(* C9: each event id is referred to by at most one row of each detail      *)
(* table, and after a save_<type>_event that returned normally             *)
(* get_<type>_details of the event's id returns the detail just saved.     *)
C9_OneDetailPerEvent ==
    /\ \A e \in Ids(db, "events") :
          \A type \in DOMAIN TypedTable :
              Cardinality(DetailIds(db, TypedTable[type], e)) <= 1
    /\ (last.op \in DOMAIN DetailTable /\ ~last.raised) =>
          LET got == get_details(db, DetailTable[last.op], The(last.id))
          IN /\ got # None
             /\ \A f \in DOMAIN last.detail \ {"id"} :
                    The(got)[f] = last.detail[f]

(* C10: a save_* call that raises leaves the store exactly as it was       *)
(* before the call.                                                        *)
C10_RaisingSaveChangesNothing ==
    [][ (last'.op \in SaveOps /\ last'.raised) => db' = db ]_vars

(***************************************************************************)
(* Weights view (ui/views/weights.py) and the weigh dialog.                *)
(***************************************************************************)
MaxWeighs == 3
MaxMobs == 1
RecentLimit == 500

Min(a, b) == IF a <= b THEN a ELSE b

(* ORDER BY event_date DESC, created_at DESC: i may come before j *)
NotAfter(d, i, j) ==
    \/ The(d.events[i].event_date) > The(d.events[j].event_date)
    \/ /\ d.events[i].event_date = d.events[j].event_date
       /\ The(d.events[i].created_at) >= The(d.events[j].created_at)

(* The lists SELECT * FROM events ORDER BY ... LIMIT ? may return: rows    *)
(* that tie on both sort keys come in an order the query does not fix.     *)
get_recent_events(d, limit) ==
    LET ids == Ids(d, "events")
        n == Cardinality(ids)
        orders == { s \in [1 .. n -> ids] :
                      /\ \A a, b \in 1 .. n : a # b => s[a] # s[b]
                      /\ \A a, b \in 1 .. n : a < b => NotAfter(d, s[a], s[b]) }
    IN { SubSeq(s, 1, Min(limit, n)) : s \in orders }

(* sorted(weights, key=lambda x: x[0]): stable *)
RECURSIVE sorted_by_date(_)
sorted_by_date(weights) ==
    IF weights = <<>>
    THEN <<>>
    ELSE LET x == weights[Len(weights)]
             s == sorted_by_date(SubSeq(weights, 1, Len(weights) - 1))
             k == Cardinality({i \in 1 .. Len(s) : s[i][1] <= x[1]})
         IN SubSeq(s, 1, k) \o <<x>> \o SubSeq(s, k + 1, Len(s))

(* a / b on floats: the quotient as the pair <<a, b>>, ZeroDivisionError   *)
(* when b = 0.                                                             *)
TrueDiv(a, b) ==
    IF b = 0 THEN [raised |-> TRUE, value |-> None]
             ELSE [raised |-> FALSE, value |-> Some(<<a, b>>)]

NoValue == [raised |-> FALSE, value |-> None]

(* The gain since the entry appended just before, with no guard. *)
calculate_adg_unguarded(animal_id, current_date, current_weight, animal_weights) ==
    LET weights == animal_weights[animal_id]
    IN IF Len(weights) < 2
       THEN NoValue
       ELSE LET prev == weights[Len(weights) - 1]
            IN TrueDiv(current_weight - prev[2], current_date - prev[1])

calculate_adg(animal_id, current_date, current_weight, animal_weights) ==
    LET weights == animal_weights[animal_id]
    IN IF Len(weights) < 2
       THEN NoValue
       ELSE LET sorted_weights == sorted_by_date(weights)
                i == CHOOSE i \in 1 .. Len(sorted_weights) :
                        /\ sorted_weights[i][1] = current_date
                        /\ \A j \in 1 .. i - 1 : sorted_weights[j][1] # current_date
            IN IF i > 1
               THEN LET prev == sorted_weights[i - 1]
                        days == current_date - prev[1]
                    IN IF days > 0
                       THEN TrueDiv(current_weight - prev[2], days)
                       ELSE NoValue
               ELSE NoValue

(* The loop of _load_weights over the events still to process; table holds *)
(* the rows inserted so far.                                               *)
RECURSIVE load_rows(_, _, _, _, _, _, _)
load_rows(d, events, mob_id, from_date, to_date, animal_weights, table) ==
    IF events = <<>>
    THEN [raised |-> FALSE, table |-> table]
    ELSE LET e == Head(events)
             event == d.events[e]
             rest == Tail(events)
             weigh == get_weigh_details(d, e)
         IN IF \/ event.event_type # Some("weigh")
               \/ ~(from_date <= The(event.event_date)
                    /\ The(event.event_date) <= to_date)
               \/ event.animal_id = None
               \/ get_animal(d, The(event.animal_id)) = None
               \/ (mob_id # None /\ d.animals[The(event.animal_id)].mob_id # mob_id)
               \/ weigh = None
            THEN load_rows(d, rest, mob_id, from_date, to_date, animal_weights, table)
            ELSE LET a == The(event.animal_id)
                     date == The(event.event_date)
                     kg == The(The(weigh).weight_kg)
                     tracked == [animal_weights EXCEPT
                                    ![a] = Append(@, <<date, kg>>)]
                     adg == calculate_adg(a, date, kg, tracked)
                 IN IF adg.raised
                    THEN [raised |-> TRUE, table |-> table]
                    ELSE load_rows(d, rest, mob_id, from_date, to_date, tracked,
                                   Append(table,
                                          [event_id |-> e, animal_id |-> a,
                                           event_date |-> date, weight_kg |-> kg,
                                           adg |-> adg.value]))

load_weights(d, events, mob_id, from_date, to_date) ==
    load_rows(d, events, mob_id, from_date, to_date,
              [a \in Ids(d, "animals") |-> <<>>], <<>>)

(* QuickWeighDialog._on_accept: one weigh event per selected animal. *)
RECURSIVE weigh_each(_, _, _, _, _)
weigh_each(d, animal_ids, event_date, weight, t) ==
    IF animal_ids = <<>>
    THEN [db |-> d, raised |-> FALSE]
    ELSE LET r == save_weigh_event(d,
                      [id |-> None, event_type |-> "note",
                       event_date |-> Some(event_date),
                       animal_id |-> Some(Head(animal_ids)), mob_id |-> None],
                      [id |-> None, weight_kg |-> Some(weight)], t)
         IN IF r.raised
            THEN [db |-> r.db, raised |-> TRUE]
            ELSE weigh_each(r.db, Tail(animal_ids), event_date, weight, t)

QuickWeighDialog_on_accept(d, animal_ids, event_date, weight, t) ==
    IF weight <= 0
    THEN [db |-> d, raised |-> FALSE]
    ELSE weigh_each(d, animal_ids, event_date, weight, t)

WeighDates == {Date2024(1, 1), Date2024(1, 11)}
Weights == {0, 100, 110}
DateRanges == {<<Date2024(1, 1), Date2024(1, 11)>>, <<Date2024(1, 2), Date2024(1, 11)>>}

AddMob ==
    /\ db.seq.mobs < MaxMobs
    /\ Call("save_mob", None, {},
            save_mob(db, [id |-> None, name |-> Some("a"), species |-> "cattle",
                          current_paddock_id |-> None], now))

AddAnimalInMob ==
    \E mob_id \in {None} \cup {Some(m) : m \in Ids(db, "mobs")} :
        /\ db.seq.animals < MaxAnimals
        /\ Call("save_animal", None, Named("mobs", mob_id),
                save_animal(db, [NewAnimal EXCEPT !.mob_id = mob_id], now))

WeighDialogAccept ==
    \E animal_ids \in Selections(Ids(db, "animals")),
       event_date \in WeighDates, weight \in Weights :
        LET r == QuickWeighDialog_on_accept(db, animal_ids, event_date, weight, now)
        IN /\ db.seq.weigh_events + Len(animal_ids) <= MaxWeighs
           /\ db' = r.db
           /\ last' = [op |-> "QuickWeighDialog", raised |-> r.raised]
           /\ conn' = TRUE
           /\ UNCHANGED <<now, files>>

LoadWeights ==
    \E events \in get_recent_events(db, RecentLimit),
       mob_id \in {None} \cup {Some(m) : m \in Ids(db, "mobs")},
       range \in DateRanges :
        LET r == load_weights(db, events, mob_id, range[1], range[2])
        IN /\ last' = [op |-> "_load_weights", raised |-> r.raised,
                       table |-> r.table]
           /\ conn' = TRUE
           /\ UNCHANGED <<db, now, files>>

NextWeights == AddMob \/ AddAnimalInMob \/ WeighDialogAccept \/ LoadWeights

SpecWeights == Init /\ [][NextWeights]_vars

(* The rows of the loaded table that belong to animal a. *)
RowsOf(table, a) == {i \in DOMAIN table : table[i].animal_id = a}

Loaded == last.op = "_load_weights" /\ ~last.raised

(* C11: in the loaded table, for an animal whose rows fall on pairwise     *)
(* distinct dates, every row but its chronologically first shows           *)
(* ADG = (weight_n - weight_{n-1}) / (date_n - date_{n-1}), n-1 being the  *)
(* animal's immediately preceding weighing.                                *)
C11_AdgShownOnLaterRows ==
    Loaded =>
        \A i \in DOMAIN last.table :
            LET r == last.table[i]
                mine == RowsOf(last.table, r.animal_id)
                earlier == {j \in mine : last.table[j].event_date < r.event_date}
            IN (/\ \A j, k \in mine :
                       j # k => last.table[j].event_date # last.table[k].event_date
                /\ earlier # {})
               => LET p == last.table[
                              CHOOSE j \in earlier :
                                  \A k \in earlier :
                                      last.table[k].event_date
                                          <= last.table[j].event_date]
                  IN /\ r.adg # None
                     /\ The(r.adg)[1] * (r.event_date - p.event_date)
                            = (r.weight_kg - p.weight_kg) * The(r.adg)[2]

(* C12: loading the table never raises ZeroDivisionError, and a row shows  *)
(* no ADG value when it is its animal's only row, its animal's             *)
(* chronologically first row, or shares its date with another row of the   *)
(* same animal.                                                            *)
C12_NoAdgWithoutInterval ==
    last.op = "_load_weights" =>
        /\ ~last.raised
        /\ \A i \in DOMAIN last.table :
              LET r == last.table[i]
                  mine == RowsOf(last.table, r.animal_id)
              IN (\/ \A j \in mine : last.table[j].event_date >= r.event_date
                  \/ \E j \in mine \ {i} : last.table[j].event_date = r.event_date)
                 => r.adg = None

(* A table was loaded in which one animal has two rows on the same date    *)
(* and a row on an earlier date.                                           *)
C12_Witness ==
    /\ Loaded
    /\ \E i, j, k \in DOMAIN last.table :
          /\ i # j
          /\ last.table[i].animal_id = last.table[j].animal_id
          /\ last.table[k].animal_id = last.table[j].animal_id
          /\ last.table[i].event_date = last.table[j].event_date
          /\ last.table[k].event_date < last.table[j].event_date

(***************************************************************************)
(* search_animals.  Text is a sequence of characters.                      *)
(***************************************************************************)
MaxTagLen == 2

Chars == {"%", "A", "_", "a", "b"}

(* The characters' ASCII codes: the BINARY collation compares these. *)
Code(c) == CASE c = "%" -> 37 [] c = "A" -> 65 [] c = "_" -> 95
             [] c = "a" -> 97 [] c = "b" -> 98

(* LIKE folds the case of ASCII letters. *)
Fold(c) == IF c = "a" THEN "A" ELSE c

(* text LIKE pattern, no ESCAPE: % matches any run of characters, _ any    *)
(* one character, every other character itself up to ASCII case.           *)
RECURSIVE Like(_, _)
Like(text, pattern) ==
    IF pattern = <<>>
    THEN text = <<>>
    ELSE IF Head(pattern) = "%"
         THEN \/ Like(text, Tail(pattern))
              \/ text # <<>> /\ Like(Tail(text), pattern)
         ELSE /\ text # <<>>
              /\ Head(pattern) = "_" \/ Fold(Head(pattern)) = Fold(Head(text))
              /\ Like(Tail(text), Tail(pattern))

(* s < t in the BINARY collation *)
RECURSIVE TextLess(_, _)
TextLess(s, t) ==
    IF t = <<>> THEN FALSE
    ELSE IF s = <<>> THEN TRUE
    ELSE IF Head(s) = Head(t) THEN TextLess(Tail(s), Tail(t))
    ELSE Code(Head(s)) < Code(Head(t))

(* ORDER BY visual_tag, eid: row i may come before row j *)
TagOrder(d, i, j) ==
    \/ TextLess(d.animals[i].visual_tag, d.animals[j].visual_tag)
    \/ /\ d.animals[i].visual_tag = d.animals[j].visual_tag
       /\ ~TextLess(d.animals[j].eid, d.animals[i].eid)

(* The lists of animal ids the query may return. *)
search_animals(d, query) ==
    LET like_query == <<"%">> \o query \o <<"%">>
        ids == { i \in Ids(d, "animals") :
                   \/ Like(d.animals[i].eid, like_query)
                   \/ Like(d.animals[i].visual_tag, like_query) }
        n == Cardinality(ids)
    IN { s \in [1 .. n -> ids] :
           /\ \A a, b \in 1 .. n : a # b => s[a] # s[b]
           /\ \A a, b \in 1 .. n : a < b => TagOrder(d, s[a], s[b]) }

Texts == UNION { [1 .. n -> Chars] : n \in 0 .. MaxTagLen }
VisualTags == {<<>>, <<"a">>, <<"A", "b">>, <<"b", "_">>}
Eids == {<<>>, <<"A", "a">>}

SaveTaggedAnimal ==
    \E eid \in Eids, visual_tag \in VisualTags, status \in {"alive", "sold"} :
        /\ db.seq.animals < MaxAnimals
        /\ Call("save_animal", None, {},
                save_animal(db, [NewAnimal EXCEPT !.eid = eid,
                                                  !.visual_tag = visual_tag,
                                                  !.status = status], now))

SearchAnimals ==
    \E query \in Texts :
        \E result \in search_animals(db, query) :
            /\ last' = [op |-> "search_animals", query |-> query,
                        raised |-> FALSE, result |-> result]
            /\ conn' = TRUE
            /\ UNCHANGED <<db, now, files>>

NextSearch == SaveTaggedAnimal \/ SearchAnimals

SpecSearch == Init /\ [][NextSearch]_vars

(* q occurs in s as a substring, compared case-insensitively *)
Contains(s, q) ==
    \E k \in 0 .. Len(s) - Len(q) :
        \A i \in 1 .. Len(q) : Fold(s[k + i]) = Fold(q[i])

(* C13: search_animals(q) returns exactly the animals whose visual tag or  *)
(* electronic id contains q as a substring compared case-insensitively,    *)
(* ordered by visual tag then electronic id.                               *)
C13_SearchIsSubstringMatch ==
    last.op = "search_animals" =>
        /\ {last.result[i] : i \in DOMAIN last.result}
              = { a \in Ids(db, "animals") :
                    \/ Contains(db.animals[a].visual_tag, last.query)
                    \/ Contains(db.animals[a].eid, last.query) }
        /\ \A i, j \in DOMAIN last.result :
              i < j => TagOrder(db, last.result[i], last.result[j])

(***************************************************************************)
(* Tasks: get_pending_tasks and complete_task.  The clock counts days:     *)
(* date.today() is now.                                                    *)
(***************************************************************************)
MaxTasks == 3

(* The same UPDATE without its WHERE clause. *)
complete_task_unfiltered(d, task_id, t) ==
    execute(d,
            [d EXCEPT !.tasks = [i \in DOMAIN @ |->
                                    [@[i] EXCEPT !.completed = 1,
                                                 !.completed_at = Some(t)]]],
            Some(task_id))

(* UPDATE tasks SET completed = 1, completed_at = ? WHERE id = ? *)
complete_task(d, task_id, t) ==
    UpdateWhere(d, "tasks", task_id,
                [d.tasks[task_id] EXCEPT !.completed = 1,
                                         !.completed_at = Some(t)])

(* ORDER BY due_date NULLS LAST, created_at: row i may come before row j *)
DueOrder(d, i, j) ==
    LET di == d.tasks[i].due_date
        dj == d.tasks[j].due_date
    IN \/ di # None /\ dj = None
       \/ di # None /\ dj # None /\ The(di) < The(dj)
       \/ /\ di = dj
          /\ The(d.tasks[i].created_at) <= The(d.tasks[j].created_at)

(* due_date <= ? : never true of a NULL due date *)
DueBy(due_date, end_date) == \E x \in due_date : x <= end_date
DueBefore(due_date, end_date) == \E x \in due_date : x < end_date

(* The lists of task ids the query may return on the day today. *)
PendingLists(d, ids) ==
    LET n == Cardinality(ids)
    IN { s \in [1 .. n -> ids] :
           /\ \A a, b \in 1 .. n : a # b => s[a] # s[b]
           /\ \A a, b \in 1 .. n : a < b => DueOrder(d, s[a], s[b]) }

get_pending_tasks_before(d, days_ahead, today) ==
    LET end_date == today + days_ahead
    IN PendingLists(d, { i \in Ids(d, "tasks") :
                           /\ d.tasks[i].completed = 0
                           /\ \/ d.tasks[i].due_date = None
                              \/ DueBefore(d.tasks[i].due_date, end_date) })

get_pending_tasks(d, days_ahead, today) ==
    LET end_date == today + days_ahead
    IN PendingLists(d, { i \in Ids(d, "tasks") :
                           /\ d.tasks[i].completed = 0
                           /\ \/ d.tasks[i].due_date = None
                              \/ DueBy(d.tasks[i].due_date, end_date) })

DueDates == {None, Some(1), Some(3)}
DaysAhead == {0, 7}

SaveDueTask ==
    \E id \in Ref("tasks"), due_date \in DueDates, completed \in BOOLEAN :
        /\ id = None => db.seq.tasks < MaxTasks
        /\ Call("save_task", id, {},
                save_task(db, [id |-> id, title |-> Some("T"),
                               due_date |-> due_date,
                               source_event_id |-> None, animal_id |-> None,
                               mob_id |-> None, completed |-> completed,
                               completed_at |-> None], now))

CompleteTask ==
    \E id \in Issued("tasks") :
        Call("complete_task", Some(id), {}, complete_task(db, id, now))

GetPendingTasks ==
    \E days_ahead \in DaysAhead :
        \E result \in get_pending_tasks(db, days_ahead, now) :
            /\ last' = [op |-> "get_pending_tasks", days_ahead |-> days_ahead,
                        raised |-> FALSE, result |-> result]
            /\ conn' = TRUE
            /\ UNCHANGED <<db, now, files>>

NextTasks == SaveDueTask \/ CompleteTask \/ DeleteTask \/ GetPendingTasks \/ Tick

SpecTasks == Init /\ [][NextTasks]_vars

(* C14: get_pending_tasks(n) returns exactly the tasks that are not        *)
(* completed and whose due date is null or no later than today + n, each   *)
(* once, ordered by due date ascending with null due dates last and equal  *)
(* due dates by creation time.                                             *)
C14_PendingTasks ==
    last.op = "get_pending_tasks" =>
        LET result == last.result
            task(i) == db.tasks[result[i]]
        IN /\ {result[i] : i \in DOMAIN result}
                 = { t \in Ids(db, "tasks") :
                       /\ db.tasks[t].completed = 0
                       /\ \A due \in db.tasks[t].due_date :
                              due <= now + last.days_ahead }
           /\ \A i, j \in DOMAIN result : i # j => result[i] # result[j]
           /\ \A i, j \in DOMAIN result :
                 i < j =>
                    /\ task(i).due_date = None => task(j).due_date = None
                    /\ \A x \in task(i).due_date, y \in task(j).due_date : x <= y
                    /\ task(i).due_date = task(j).due_date
                          => The(task(i).created_at) <= The(task(j).created_at)

(* On day 2 the list was read with n = 0 while the store holds an overdue  *)
(* open task (returned), a completed task, an open task due later and an   *)
(* open task with no due date (returned last).                             *)
C14_Witness ==
    /\ last.op = "get_pending_tasks" /\ last.days_ahead = 0 /\ now = 2
    /\ Len(last.result) = 2
    /\ db.tasks[last.result[1]].due_date = Some(1)
    /\ db.tasks[last.result[2]].due_date = None
    /\ \E t \in Ids(db, "tasks") :
          db.tasks[t].due_date = Some(3) /\ db.tasks[t].completed = 0

(***************************************************************************)
(* Backup and restore.  shutil.copy2(src, dst) opens src, then opens dst   *)
(* for writing, which empties it, then copies; it raises with dst          *)
(* untouched when src cannot be opened, and with dst cut short when the    *)
(* copying itself fails (copy_fails).  A store file cut short is taken at  *)
(* its shortest, the empty file, in which connect() creates the schema     *)
(* anew: the empty store.                                                  *)
(***************************************************************************)
backup(d, fs, backup_path) ==
    [db |-> d, files |-> [fs EXCEPT ![backup_path] = Some(d)],
     conn |-> TRUE, raised |-> FALSE]

(* The copy made from the store to the backup file. *)
restore_reversed(d, fs, backup_path, copy_fails) ==
    IF fs[backup_path] = None \/ copy_fails
    THEN [db |-> d, files |-> fs, conn |-> FALSE, raised |-> TRUE]
    ELSE [db |-> d, files |-> [fs EXCEPT ![backup_path] = Some(d)],
          conn |-> TRUE, raised |-> FALSE]

restore(d, fs, backup_path, copy_fails) ==
    IF fs[backup_path] = None
    THEN [db |-> d, files |-> fs, conn |-> FALSE, raised |-> TRUE]
    ELSE IF copy_fails
         THEN [db |-> EmptyDb, files |-> fs, conn |-> FALSE, raised |-> TRUE]
         ELSE [db |-> The(fs[backup_path]), files |-> fs,
               conn |-> TRUE, raised |-> FALSE]

AddTask ==
    /\ Room(None, 1)
    /\ Call("save_task", None, {},
            save_task(db, [id |-> None, title |-> Some("T"), due_date |-> None,
                           source_event_id |-> None, animal_id |-> None,
                           mob_id |-> None, completed |-> FALSE,
                           completed_at |-> None], now))

Backup ==
    \E backup_path \in Paths :
        LET r == backup(db, files, backup_path)
        IN /\ db' = r.db /\ files' = r.files /\ conn' = r.conn
           /\ last' = [op |-> "backup", path |-> backup_path,
                       raised |-> r.raised, replaced |-> FALSE]
           /\ UNCHANGED now

Restore ==
    \E backup_path \in Paths, copy_fails \in BOOLEAN :
        LET r == restore(db, files, backup_path, copy_fails)
        IN /\ db' = r.db /\ files' = r.files /\ conn' = r.conn
           /\ last' = [op |-> "restore", path |-> backup_path,
                       raised |-> r.raised, replaced |-> r.db # db]
           /\ UNCHANGED now

NextBackup ==
    \/ AddPaddock \/ DeletePaddock \/ AddTask \/ CompleteTask
    \/ Backup \/ Restore

SpecBackup == Init /\ [][NextBackup]_vars

(* C15: backup(p) writes the store as it is to p and leaves the store      *)
(* alone, no save, delete or complete operation touches p, and a restore(p)*)
(* that returns leaves the store equal to the content of p: every row of   *)
(* the backup is back with its values and nothing written since survives.  *)
C15_RestoreReturnsBackup ==
    [][ /\ last'.op = "backup" =>
              files'[last'.path] = Some(db) /\ db' = db
        /\ last'.op \notin {"backup", "restore"} => files' = files
        /\ (last'.op = "restore" /\ ~last'.raised) =>
              /\ files' = files
              /\ Some(db') = files[last'.path]
      ]_vars

(* A restore returned and replaced a store that differed from the backup. *)
C15_Witness ==
    /\ last.op = "restore" /\ ~last.raised /\ last.replaced
    /\ Some(db) = files[last.path]

MaxId == 3

OrderedLists(ids, may_precede) ==
    LET n == Cardinality(ids)
    IN { s \in [1 .. n -> ids] :
           /\ \A a, b \in 1 .. n : a # b => s[a] # s[b]
           /\ \A a, b \in 1 .. n : a < b => <<s[a], s[b]>> \in may_precede }

(* The first character's code of the names in use: ORDER BY name. *)
NameRank(name) ==
    CASE name = Some("P") -> 80 [] name = Some("T") -> 84
      [] name = Some("a") -> 97 [] name = Some("b") -> 98

NameOrder(d, table) ==
    { p \in Ids(d, table) \X Ids(d, table) :
        NameRank(d[table][p[1]].name) <= NameRank(d[table][p[2]].name) }

get_all_paddocks(d) == OrderedLists(Ids(d, "paddocks"), NameOrder(d, "paddocks"))

get_all_mobs(d) == OrderedLists(Ids(d, "mobs"), NameOrder(d, "mobs"))

get_all_products(d) == OrderedLists(Ids(d, "products"), NameOrder(d, "products"))

TagOrdered(d) ==
    { p \in Ids(d, "animals") \X Ids(d, "animals") : TagOrder(d, p[1], p[2]) }

(* status None: no filter *)
get_all_animals(d, status) ==
    OrderedLists({ a \in Ids(d, "animals") :
                     status # None => d.animals[a].status = status },
                 TagOrdered(d))

get_animals_by_mob(d, mob_id) ==
    OrderedLists({ a \in Ids(d, "animals") : d.animals[a].mob_id = Some(mob_id) },
                 TagOrdered(d))

(* ORDER BY event_date DESC *)
NewestFirst(d) ==
    { p \in Ids(d, "events") \X Ids(d, "events") :
        The(d.events[p[1]].event_date) >= The(d.events[p[2]].event_date) }

get_events_for_animal(d, animal_id, event_type) ==
    OrderedLists({ e \in Ids(d, "events") :
                     /\ d.events[e].animal_id = Some(animal_id)
                     /\ event_type # None => d.events[e].event_type = event_type },
                 NewestFirst(d))

get_events_for_mob(d, mob_id, event_type) ==
    OrderedLists({ e \in Ids(d, "events") :
                     /\ d.events[e].mob_id = Some(mob_id)
                     /\ event_type # None => d.events[e].event_type = event_type },
                 NewestFirst(d))

GetterTable ==
    [get_paddock |-> "paddocks", get_mob |-> "mobs", get_animal |-> "animals",
     get_product |-> "products", get_movement_details |-> "movement_events",
     get_treatment_details |-> "treatment_events",
     get_weigh_details |-> "weigh_events"]

(* Whether the getter op, called with id, returned an object. *)
Found(d, op, id) ==
    CASE op = "get_paddock" -> get_paddock(d, id) # None
      [] op = "get_mob" -> get_mob(d, id) # None
      [] op = "get_animal" -> get_animal(d, id) # None
      [] op = "get_product" -> get_product(d, id) # None
      [] op = "get_movement_details" -> get_movement_details(d, id) # None
      [] op = "get_treatment_details" -> get_treatment_details(d, id) # None
      [] op = "get_weigh_details" -> get_weigh_details(d, id) # None

ListOps ==
    {"get_all_paddocks", "get_all_mobs", "get_all_products", "get_all_animals",
     "get_animals_by_mob", "search_animals", "get_events_for_animal",
     "get_events_for_mob", "get_recent_events", "get_animals_on_whp",
     "get_pending_tasks"}

TypeFilters == {None, Some("treatment"), Some("weigh")}

ListArgs(op) ==
    CASE op \in {"get_all_paddocks", "get_all_mobs", "get_all_products"} -> {<<>>}
      [] op = "get_all_animals" -> {None, Some("alive"), Some("sold")}
      [] op = "get_animals_by_mob" -> 1 .. MaxId
      [] op = "search_animals" -> {<<>>, <<"A">>, <<"b">>}
      [] op \in {"get_events_for_animal", "get_events_for_mob"} ->
            (1 .. MaxId) \X TypeFilters
      [] op = "get_recent_events" -> {RecentLimit}
      [] op = "get_animals_on_whp" -> {Date2024(1, 10), Date2024(3, 1)}
      [] op = "get_pending_tasks" -> DaysAhead

(* The lengths of the collections the list query op may return. *)
ListLengths(d, op, arg, today) ==
    LET Lengths(lists) == {Len(l) : l \in lists}
    IN CASE op = "get_all_paddocks" -> Lengths(get_all_paddocks(d))
         [] op = "get_all_mobs" -> Lengths(get_all_mobs(d))
         [] op = "get_all_products" -> Lengths(get_all_products(d))
         [] op = "get_all_animals" -> Lengths(get_all_animals(d, arg))
         [] op = "get_animals_by_mob" -> Lengths(get_animals_by_mob(d, arg))
         [] op = "search_animals" -> Lengths(search_animals(d, arg))
         [] op = "get_events_for_animal" ->
               Lengths(get_events_for_animal(d, arg[1], arg[2]))
         [] op = "get_events_for_mob" ->
               Lengths(get_events_for_mob(d, arg[1], arg[2]))
         [] op = "get_recent_events" -> Lengths(get_recent_events(d, arg))
         [] op = "get_animals_on_whp" -> {Cardinality(get_animals_on_whp(d, arg))}
         [] op = "get_pending_tasks" -> Lengths(get_pending_tasks(d, arg, today))

GetById ==
    \E op \in DOMAIN GetterTable, id \in 1 .. MaxId :
        /\ last' = [op |-> op, given |-> Some(id), raised |-> FALSE,
                    found |-> Found(db, op, id)]
        /\ conn' = TRUE
        /\ UNCHANGED <<db, now, files>>

GetList ==
    \E op \in ListOps :
        \E arg \in ListArgs(op) :
            \E count \in ListLengths(db, op, arg, now) :
                /\ last' = [op |-> op, arg |-> arg, raised |-> FALSE,
                            count |-> count]
                /\ conn' = TRUE
                /\ UNCHANGED <<db, now, files>>

(* a treatment whose meat withholding period ends on 1 February *)
SaveWhpTreatment ==
    \E animal_id \in Ids(db, "animals"), product_id \in Ids(db, "products") :
        /\ db.seq.treatment_events < MaxTreatments
        /\ Call("save_treatment_event", None, {},
                save_treatment_event(db,
                    [id |-> None, event_type |-> "treatment",
                     event_date |-> Some(Date2024(1, 10)),
                     animal_id |-> Some(animal_id), mob_id |-> None],
                    [id |-> None, product_id |-> Some(product_id),
                     meat_whp_end |-> Some(Date2024(2, 1)),
                     milk_whp_end |-> None, esi_end |-> None], now))

NextLookup ==
    \/ AddMob \/ AddAnimalInMob \/ DeleteAnimal \/ AddProduct \/ AddTask
    \/ SaveWhpTreatment \/ GetById \/ GetList

SpecLookup == Init /\ [][NextLookup]_vars

(***************************************************************************)
(* What the list query op, called with arg, has nothing to return for.     *)
(***************************************************************************)
NothingMatches(d, op, arg, today) ==
    CASE op = "get_all_paddocks" -> Ids(d, "paddocks") = {}
      [] op = "get_all_mobs" -> Ids(d, "mobs") = {}
      [] op = "get_all_products" -> Ids(d, "products") = {}
      [] op = "get_all_animals" ->
            \A a \in Ids(d, "animals") : arg # None /\ d.animals[a].status # arg
      [] op = "get_animals_by_mob" ->
            \A a \in Ids(d, "animals") : d.animals[a].mob_id # Some(arg)
      [] op = "search_animals" ->
            \A a \in Ids(d, "animals") :
                /\ ~Contains(d.animals[a].visual_tag, arg)
                /\ ~Contains(d.animals[a].eid, arg)
      [] op = "get_events_for_animal" ->
            \A e \in Ids(d, "events") :
                \/ d.events[e].animal_id # Some(arg[1])
                \/ arg[2] # None /\ d.events[e].event_type # arg[2]
      [] op = "get_events_for_mob" ->
            \A e \in Ids(d, "events") :
                \/ d.events[e].mob_id # Some(arg[1])
                \/ arg[2] # None /\ d.events[e].event_type # arg[2]
      [] op = "get_recent_events" -> Ids(d, "events") = {}
      [] op = "get_animals_on_whp" ->
            \A t \in Ids(d, "treatment_events") :
                \A end_date \in d.treatment_events[t].meat_whp_end
                                    \cup d.treatment_events[t].milk_whp_end
                                    \cup d.treatment_events[t].esi_end :
                    end_date < arg
      [] op = "get_pending_tasks" ->
            \A t \in Ids(d, "tasks") :
                \/ d.tasks[t].completed # 0
                \/ \E due \in d.tasks[t].due_date : due > today + arg

get_animal_counts(d) ==
    [status \in {The(d.animals[a].status) : a \in Ids(d, "animals")} |->
        Cardinality({a \in Ids(d, "animals") : d.animals[a].status = Some(status)})]

(* the species counts without WHERE status = 'alive' *)
get_species_counts_any_status(d) ==
    [species \in {The(d.animals[a].species) : a \in Ids(d, "animals")} |->
        Cardinality({a \in Ids(d, "animals") : d.animals[a].species = Some(species)})]

get_species_counts(d) ==
    LET alive == {a \in Ids(d, "animals") : d.animals[a].status = Some("alive")}
    IN [species \in {The(d.animals[a].species) : a \in alive} |->
           Cardinality({a \in alive : d.animals[a].species = Some(species)})]

SaveAnimalOfSpecies ==
    \E species \in Species :
        /\ db.seq.animals < MaxAnimals
        /\ Call("save_animal", None, {},
                save_animal(db, [NewAnimal EXCEPT !.species = species], now))

GetCounts ==
    /\ last' = [op |-> "get_counts", raised |-> FALSE,
                animal_counts |-> get_animal_counts(db),
                species_counts |-> get_species_counts(db)]
    /\ conn' = TRUE
    /\ UNCHANGED <<db, now, files>>

NextCounts == SaveAnimalOfSpecies \/ StatusDialogAccept \/ DeleteAnimal \/ GetCounts

SpecCounts == Init /\ [][NextCounts]_vars

RECURSIVE SumOf(_)
SumOf(counts) ==
    IF DOMAIN counts = {}
    THEN 0
    ELSE LET k == CHOOSE k \in DOMAIN counts : TRUE
         IN counts[k] + SumOf([j \in DOMAIN counts \ {k} |-> counts[j]])

(* C18: get_animal_counts has an entry for exactly the statuses that       *)
(* occur, each the number of animals with that status, and its values sum  *)
(* to the number of animals; get_species_counts gives for each species     *)
(* the number of alive animals of that species (no entry where there is    *)
(* none), and its values sum to the 'alive' entry of get_animal_counts, or *)
(* to 0 when there is none.                                                *)
C18_CountsByStatusAndSpecies ==
    last.op = "get_counts" =>
        LET animals == Ids(db, "animals")
            Entry(counts, k) == IF k \in DOMAIN counts THEN counts[k] ELSE 0
        IN /\ ~last.raised
           /\ DOMAIN last.animal_counts
                 = {s \in AnimalStatus : \E a \in animals : db.animals[a].status = Some(s)}
           /\ \A s \in DOMAIN last.animal_counts :
                 last.animal_counts[s]
                    = Cardinality({a \in animals : db.animals[a].status = Some(s)})
           /\ SumOf(last.animal_counts) = Cardinality(animals)
           /\ DOMAIN last.species_counts \subseteq Species
           /\ \A sp \in Species :
                 /\ Entry(last.species_counts, sp)
                       = Cardinality({a \in animals :
                                        /\ db.animals[a].species = Some(sp)
                                        /\ db.animals[a].status = Some("alive")})
                 /\ sp \in DOMAIN last.species_counts => last.species_counts[sp] > 0
           /\ SumOf(last.species_counts) = Entry(last.animal_counts, "alive")

(* counts taken with one alive animal and one that is not alive, of two    *)
(* species                                                                 *)
C18_Witness ==
    /\ last.op = "get_counts"
    /\ \E a, b \in Ids(db, "animals") :
          /\ db.animals[a].status = Some("alive")
          /\ db.animals[b].status # Some("alive")
          /\ db.animals[a].species # db.animals[b].species
    /\ SumOf(last.species_counts) = 1
    /\ SumOf(last.animal_counts) = 2

(***************************************************************************)
(* The mobs view: deleting the selected mob, once the question is answered *)
(* Yes.  animals is the list get_animals_by_mob returned.  An exception    *)
(* raised by a Database call leaves the handler at that call.              *)
(***************************************************************************)
RECURSIVE unassign_each(_, _, _)
unassign_each(d, animals, t) ==
    IF animals = <<>>
    THEN [db |-> d, raised |-> FALSE]
    ELSE LET animal == The(get_animal(d, Head(animals)))
             r == save_animal(d, [animal EXCEPT !.mob_id = None], t)
         IN IF r.raised
            THEN [db |-> r.db, raised |-> TRUE]
            ELSE unassign_each(r.db, Tail(animals), t)

MobsView_on_delete_mob(d, mob_id, animals, t) ==
    LET r == unassign_each(d, animals, t)
    IN IF r.raised
       THEN [db |-> r.db, raised |-> TRUE]
       ELSE LET del == delete_mob(r.db, mob_id)
            IN [db |-> del.db, raised |-> del.raised]

(* an event recorded against a mob *)
SaveMobEvent ==
    \E mob_id \in Ids(db, "mobs") :
        /\ db.seq.events < MaxMobs
        /\ Call("save_event", None, {},
                save_event(db, [id |-> None, event_type |-> "note",
                                event_date |-> Some(Date2024(1, 10)),
                                animal_id |-> None, mob_id |-> Some(mob_id)], now))

DeleteMobConfirmed ==
    \E mob_id \in Ids(db, "mobs") :
        \E animals \in get_animals_by_mob(db, mob_id) :
            LET r == MobsView_on_delete_mob(db, mob_id, animals, now)
            IN /\ db' = r.db
               /\ last' = [op |-> "_on_delete_mob", mob_id |-> mob_id,
                           raised |-> r.raised,
                           assigned |-> {animals[i] : i \in DOMAIN animals}]
               /\ conn' = TRUE
               /\ UNCHANGED <<now, files>>

NextMobDelete ==
    \/ AddMob \/ AddAnimalInMob \/ StatusDialogAccept \/ SaveMobEvent
    \/ DeleteMobConfirmed

SpecMobDelete == Init /\ [][NextMobDelete]_vars

(* C19: once the deletion of mob m is confirmed in the mobs view, m no     *)
(* longer exists and every animal that was assigned to m, whatever its     *)
(* status, still exists with no mob; so the flow never ends with the       *)
(* animals unassigned and m still there.                                   *)
C19_MobGoneAnimalsUnassigned ==
    last.op = "_on_delete_mob" =>
        /\ last.mob_id \notin Ids(db, "mobs")
        /\ \A a \in last.assigned :
              a \in Ids(db, "animals") /\ db.animals[a].mob_id = None

(***************************************************************************)
(* The animals view: deleting the selected animals, once the question is   *)
(* answered Yes.  An exception raised by delete_animal leaves the loop.    *)
(***************************************************************************)
RECURSIVE AnimalsView_on_delete_animal(_, _)
AnimalsView_on_delete_animal(d, ids) ==
    IF ids = <<>>
    THEN [db |-> d, raised |-> FALSE]
    ELSE LET r == delete_animal(d, Head(ids))
         IN IF r.raised
            THEN [db |-> r.db, raised |-> TRUE]
            ELSE AnimalsView_on_delete_animal(r.db, Tail(ids))

EventsOf(d, animals) ==
    {e \in Ids(d, "events") : \E a \in animals : d.events[e].animal_id = Some(a)}

DeleteAnimalsConfirmed ==
    \E ids \in Selections(Ids(db, "animals")) :
        LET r == AnimalsView_on_delete_animal(db, ids)
            selected == {ids[i] : i \in DOMAIN ids}
        IN /\ db' = r.db
           /\ last' = [op |-> "_on_delete_animal", raised |-> r.raised,
                       selected |-> selected, events |-> EventsOf(db, selected)]
           /\ conn' = TRUE
           /\ UNCHANGED <<now, files>>

NextAnimalDelete ==
    AddAnimal \/ AddProduct \/ TreatmentDialogAccept \/ DeleteAnimalsConfirmed

SpecAnimalDelete == Init /\ [][NextAnimalDelete]_vars

(* C20: once the deletion of the selected animals is confirmed in the      *)
(* animals view, every selected animal is gone, and so are all the events  *)
(* recorded for it and their typed detail rows.                            *)
C20_SelectedAnimalsAndEventsGone ==
    last.op = "_on_delete_animal" =>
        /\ ~last.raised
        /\ last.selected \cap Ids(db, "animals") = {}
        /\ last.events \cap Ids(db, "events") = {}
        /\ EventsOf(db, last.selected) = {}
        /\ \A table \in {"movement_events", "treatment_events", "weigh_events"} :
              \A i \in Ids(db, table) :
                  \A e \in db[table][i].event_id : e \notin last.events

(***************************************************************************)
(* The treatments view: deleting the selected product, once the question   *)
(* is answered Yes.                                                        *)
(***************************************************************************)
TreatmentsView_on_delete_product(d, product_id) == delete_product(d, product_id)

DeleteProductConfirmed ==
    \E product_id \in Ids(db, "products") :
        LET r == TreatmentsView_on_delete_product(db, product_id)
        IN /\ db' = r.db
           /\ last' = [op |-> "_on_delete_product", raised |-> r.raised,
                       product_id |-> product_id,
                       events |-> db.events, treatments |-> db.treatment_events]
           /\ conn' = TRUE
           /\ UNCHANGED <<now, files>>

NextProductDelete ==
    AddAnimal \/ SaveProduct \/ TreatmentDialogAccept \/ DeleteProductConfirmed

SpecProductDelete == Init /\ [][NextProductDelete]_vars

(* C21: once the deletion of a product is confirmed in the treatments      *)
(* view, the product is gone and every event and treatment row is as it    *)
(* was, whether or not a treatment names the product.                      *)
C21_ProductGoneTreatmentsKept ==
    last.op = "_on_delete_product" =>
        /\ ~last.raised
        /\ last.product_id \notin Ids(db, "products")
        /\ db.treatment_events = last.treatments
        /\ db.events = last.events

(***************************************************************************)
(* The sale draft sheet: the animals it lists, in the order of             *)
(* get_all_animals, for each list that query may return.                   *)
(***************************************************************************)
(* the sale draft without status=AnimalStatus.ALIVE *)
generate_sale_draft_any_status(d, today) ==
    LET whp_animal_ids == {item.animal_id : item \in get_animals_on_whp(d, today)}
    IN { SelectSeq(all_animals, LAMBDA a : a \notin whp_animal_ids) :
           all_animals \in get_all_animals(d, None) }

generate_sale_draft(d, today) ==
    LET whp_animal_ids == {item.animal_id : item \in get_animals_on_whp(d, today)}
    IN { SelectSeq(all_animals, LAMBDA a : a \notin whp_animal_ids) :
           all_animals \in get_all_animals(d, Some("alive")) }

Todays == {Date2024(1, 10), Date2024(1, 12), Date2024(1, 13), Date2024(2, 7),
           Date2024(2, 8)}

GenerateSaleDraft ==
    \E today \in Todays :
        \E sale_ready \in generate_sale_draft(db, today) :
            /\ last' = [op |-> "generate_sale_draft", raised |-> FALSE,
                        today |-> today,
                        sale_ready |-> {sale_ready[i] : i \in DOMAIN sale_ready}]
            /\ conn' = TRUE
            /\ UNCHANGED <<db, now, files>>

NextSale ==
    \/ AddAnimal \/ SaveProduct \/ TreatmentDialogAccept \/ StatusDialogAccept
    \/ GenerateSaleDraft

SpecSale == Init /\ [][NextSale]_vars

(* C22: the sale draft lists exactly the alive animals with no treatment   *)
(* whose meat, milk or ESI end date is on or after today; no animal is on  *)
(* both the sale draft and get_animals_on_whp(today), and every alive      *)
(* animal is on exactly one of the two.                                    *)
C22_SaleDraftIsAliveOffWhp ==
    last.op = "generate_sale_draft" =>
        LET alive == {a \in Ids(db, "animals") : db.animals[a].status = Some("alive")}
            on_whp == OnWhpAnimals(db, last.today)
        IN /\ last.sale_ready
                 = {a \in alive : ~HasUnexpiredTreatment(db, a, last.today)}
           /\ last.sale_ready \cap on_whp = {}
           /\ \A a \in alive : (a \in last.sale_ready) # (a \in on_whp)

(* a draft that lists one alive animal and holds back another whose only   *)
(* unexpired end date is a milk or ESI one                                 *)
C22_Witness ==
    /\ last.op = "generate_sale_draft"
    /\ \E a, b \in Ids(db, "animals") :
          /\ db.animals[a].status = Some("alive")
          /\ db.animals[b].status = Some("alive")
          /\ a \in last.sale_ready
          /\ b \notin last.sale_ready
          /\ \A t \in TreatmentsOf(db, b) :
                \A x \in db.treatment_events[t].meat_whp_end : x < last.today

(***************************************************************************)
(* The validation of the animal, treatment and weigh dialogs.              *)
(***************************************************************************)
RECURSIVE strip(_)
strip(text) ==
    IF text = <<>> THEN <<>>
    ELSE IF Head(text) = " " THEN strip(Tail(text))
    ELSE IF text[Len(text)] = " " THEN strip(SubSeq(text, 1, Len(text) - 1))
    ELSE text

(* _on_save without the check of the two fields *)
AnimalDialog_on_save_unchecked(d, animal, visual_tag_text, eid_text, t) ==
    LET r == save_animal(d, [animal EXCEPT !.visual_tag = strip(visual_tag_text),
                                           !.eid = strip(eid_text)], t)
    IN [db |-> r.db, raised |-> FALSE]

(* an exception of save_animal is caught and shown *)
AnimalDialog_on_save(d, animal, visual_tag_text, eid_text, t) ==
    LET visual_tag == strip(visual_tag_text)
        eid == strip(eid_text)
    IN IF visual_tag = <<>> /\ eid = <<>>
       THEN [db |-> d, raised |-> FALSE]
       ELSE LET r == save_animal(d, [animal EXCEPT !.visual_tag = visual_tag,
                                                   !.eid = eid], t)
            IN [db |-> r.db, raised |-> FALSE]

DialogTexts == {<<>>, <<" ">>, <<" ", "A">>}

(* the dialog opened for a new animal, Animal(), or for a stored one *)
AnimalDialogSave ==
    \E id \in {None} \cup {Some(a) : a \in Ids(db, "animals")},
       visual_tag_text \in DialogTexts, eid_text \in DialogTexts :
        LET animal == IF id = None
                      THEN [NewAnimal EXCEPT !.visual_tag = <<>>]
                      ELSE The(get_animal(db, The(id)))
            r == AnimalDialog_on_save(db, animal, visual_tag_text, eid_text, now)
        IN /\ id = None => db.seq.animals < MaxAnimals
           /\ db' = r.db
           /\ last' = [op |-> "AnimalDialog", raised |-> r.raised,
                       visual_tag |-> visual_tag_text, eid |-> eid_text,
                       wrote |-> r.db # db]
           /\ conn' = TRUE
           /\ UNCHANGED <<now, files>>

TreatmentDialogChoose ==
    \E animal_ids \in Selections(Ids(db, "animals")),
       product_id \in {None} \cup {Some(p) : p \in Ids(db, "products")} :
        LET r == QuickTreatmentDialog_on_accept(db, animal_ids, product_id,
                                                Date2024(1, 10), now)
        IN /\ db.seq.events + Len(animal_ids) <= MaxTreatments
           /\ db' = r.db
           /\ last' = [op |-> "QuickTreatmentDialog", raised |-> r.raised,
                       product_id |-> product_id, wrote |-> r.db # db]
           /\ conn' = TRUE
           /\ UNCHANGED <<now, files>>

WeighDialogEnter ==
    \E animal_ids \in Selections(Ids(db, "animals")), weight \in {0, 100} :
        LET r == QuickWeighDialog_on_accept(db, animal_ids, Date2024(1, 10),
                                            weight, now)
        IN /\ db.seq.events + Len(animal_ids) <= MaxTreatments
           /\ db' = r.db
           /\ last' = [op |-> "QuickWeighDialog", raised |-> r.raised,
                       weight |-> weight, wrote |-> r.db # db]
           /\ conn' = TRUE
           /\ UNCHANGED <<now, files>>

NextDialogs ==
    AnimalDialogSave \/ AddProduct \/ TreatmentDialogChoose \/ WeighDialogEnter

SpecDialogs == Init /\ [][NextDialogs]_vars

(* C23: the animal dialog accepted with visual tag and EID both empty, the *)
(* treatment dialog accepted with no product and the weigh dialog accepted *)
(* with a weight <= 0 write nothing and leave the store as it was; so      *)
(* every weigh row made through the weigh dialog has a weight > 0, every   *)
(* treatment row made through the treatment dialog names a product and     *)
(* every animal saved through the animal dialog has a visual tag or an EID *)
(* that is not empty.                                                      *)
C23_InvalidInputWritesNothing ==
    /\ (/\ last.op = "AnimalDialog"
        /\ \A i \in DOMAIN last.visual_tag : last.visual_tag[i] = " "
        /\ \A i \in DOMAIN last.eid : last.eid[i] = " ")
          => ~last.wrote /\ ~last.raised
    /\ (last.op = "QuickTreatmentDialog" /\ last.product_id = None)
          => ~last.wrote /\ ~last.raised
    /\ (last.op = "QuickWeighDialog" /\ last.weight <= 0)
          => ~last.wrote /\ ~last.raised
    /\ \A w \in Ids(db, "weigh_events") :
          \E x \in db.weigh_events[w].weight_kg : x > 0
    /\ \A t \in Ids(db, "treatment_events") : db.treatment_events[t].product_id # None
    /\ \A a \in Ids(db, "animals") :
          db.animals[a].visual_tag # <<>> \/ db.animals[a].eid # <<>>

(* the animal dialog accepted with blanks only in both fields, while the   *)
(* store holds an animal, a treatment and a weight recorded before         *)
C23_Witness ==
    /\ last.op = "AnimalDialog"
    /\ last.visual_tag = <<" ">>
    /\ last.eid = <<>>
    /\ ~last.wrote
    /\ Ids(db, "animals") # {}
    /\ Ids(db, "treatment_events") # {}
    /\ Ids(db, "weigh_events") # {}

(***************************************************************************)
(* The treatment register, the movement log and the weight summary: the    *)
(* events each lists, in order.  events is the list get_recent_events      *)
(* returned.  ReportLimit stands for the limit=1000 of the three reports,  *)
(* scaled so that the store can hold more events than the limit.           *)
(***************************************************************************)
ReportLimit == 2

ReportDetailTable ==
    [treatment |-> "treatment_events", movement |-> "movement_events",
     weigh |-> "weigh_events"]

(* the report with from_date <= e.event_date < to_date *)
generate_report_before(d, events, event_type, from_date, to_date) ==
    SelectSeq(events,
              LAMBDA e : /\ d.events[e].event_type = Some(event_type)
                         /\ from_date <= The(d.events[e].event_date)
                         /\ The(d.events[e].event_date) < to_date
                         /\ get_details(d, ReportDetailTable[event_type], e) # None)

generate_report(d, events, event_type, from_date, to_date) ==
    SelectSeq(events,
              LAMBDA e : /\ d.events[e].event_type = Some(event_type)
                         /\ from_date <= The(d.events[e].event_date)
                         /\ The(d.events[e].event_date) <= to_date
                         /\ get_details(d, ReportDetailTable[event_type], e) # None)

ReportDates == {Date2024(1, 10), Date2024(1, 11)}

(* a treatment or a weight recorded with its detail row, or a bare event *)
RecordEvent ==
    \E kind \in {"treatment", "weigh", "bare"}, event_date \in ReportDates :
        LET event == [id |-> None, event_type |-> "treatment",
                      event_date |-> Some(event_date), animal_id |-> None,
                      mob_id |-> None]
        IN /\ db.seq.events < MaxRows
           /\ Call(kind, None, {},
                   CASE kind = "treatment" ->
                          save_treatment_event(db, event,
                              [id |-> None, product_id |-> None,
                               meat_whp_end |-> None, milk_whp_end |-> None,
                               esi_end |-> None], now)
                     [] kind = "weigh" ->
                          save_weigh_event(db, event,
                              [id |-> None, weight_kg |-> Some(100)], now)
                     [] kind = "bare" -> save_event(db, event, now))

GenerateReport ==
    \E event_type \in DOMAIN ReportDetailTable,
       from_date \in ReportDates, to_date \in ReportDates :
        \E events \in get_recent_events(db, ReportLimit) :
            /\ last' = [op |-> "generate_report", raised |-> FALSE,
                        event_type |-> event_type, from_date |-> from_date,
                        to_date |-> to_date,
                        listed |-> generate_report(db, events, event_type,
                                                   from_date, to_date)]
            /\ conn' = TRUE
            /\ UNCHANGED <<db, now, files>>

NextReports == RecordEvent \/ GenerateReport \/ Tick

SpecReports == Init /\ [][NextReports]_vars

(* Event j is more recent than event i: a later event date, or the same    *)
(* date and a later creation time.                                         *)
MoreRecent(d, j, i) ==
    \/ The(d.events[j].event_date) > The(d.events[i].event_date)
    \/ /\ d.events[j].event_date = d.events[i].event_date
       /\ The(d.events[j].created_at) > The(d.events[i].created_at)

(* The sets of events that are the limit most recent ones. *)
MostRecent(d, limit) ==
    { S \in SUBSET Ids(d, "events") :
        /\ Cardinality(S) = Min(limit, Cardinality(Ids(d, "events")))
        /\ \A i \in S, j \in Ids(d, "events") \ S : ~MoreRecent(d, j, i) }

InReport(d, e, event_type, from_date, to_date) ==
    /\ d.events[e].event_type = Some(event_type)
    /\ \E x \in d.events[e].event_date : from_date <= x /\ x <= to_date
    /\ \E i \in Ids(d, ReportDetailTable[event_type]) :
          d[ReportDetailTable[event_type]][i].event_id = Some(e)

get_property_settings(d) ==
    IF Ids(d, "property_settings") = {}
    THEN {None}
    ELSE { Some([id |-> Some(i),
                 property_name |-> d.property_settings[i].property_name]) :
             i \in Ids(d, "property_settings") }

(* the save that starts from PropertySettings() whatever the store holds *)
SettingsView_save_always_new(d, settings, property_name, t) ==
    save_property_settings(d, [id |-> None, property_name |-> property_name], t)

(* settings: what get_property_settings() returned; the exception of the   *)
(* save is caught and shown                                                *)
SettingsView_save_property_settings(d, settings, property_name, t) ==
    LET s == IF settings # None THEN The(settings)
             ELSE [id |-> None, property_name |-> Some("")]
    IN save_property_settings(d, [s EXCEPT !.property_name = property_name], t)

SaveSettingsInView ==
    \E settings \in get_property_settings(db), property_name \in Names :
        LET r == SettingsView_save_property_settings(db, settings,
                                                     property_name, now)
        IN /\ db' = r.db
           /\ last' = [op |-> "_save_property_settings", raised |-> r.raised,
                       saved |-> property_name]
           /\ conn' = TRUE
           /\ UNCHANGED <<now, files>>

NextSettings == SaveSettingsInView \/ Backup \/ Restore \/ Tick

SpecSettings == Init /\ [][NextSettings]_vars

SaveMobTreatment ==
    \E mob_id \in Ids(db, "mobs"), field \in {"meat_whp_end", "milk_whp_end", "esi_end"} :
        /\ db.seq.treatment_events < MaxTreatments
        /\ Call("save_treatment_event", None, {},
                save_treatment_event(db,
                    [id |-> None, event_type |-> "treatment",
                     event_date |-> Some(Date2024(1, 10)),
                     animal_id |-> None, mob_id |-> Some(mob_id)],
                    [[id |-> None, product_id |-> None, meat_whp_end |-> None,
                      milk_whp_end |-> None, esi_end |-> None]
                        EXCEPT ![field] = Some(Date2024(2, 7))], now))

GetAnimalsOnWhp ==
    \E as_of_date \in Todays :
        /\ last' = [op |-> "get_animals_on_whp", raised |-> FALSE,
                    as_of_date |-> as_of_date,
                    animals |-> {item.animal_id :
                                   item \in get_animals_on_whp(db, as_of_date)}]
        /\ conn' = TRUE
        /\ UNCHANGED <<db, now, files>>

NextMobWhp ==
    \/ AddMob \/ AddAnimalInMob \/ AddProduct \/ SaveWhpTreatment
    \/ SaveMobTreatment \/ GetAnimalsOnWhp

SpecMobWhp == Init /\ [][NextMobWhp]_vars

(* C26: every animal in get_animals_on_whp(as_of) has a treatment whose    *)
(* event names that animal, with an end date on or after as_of: a          *)
(* treatment whose event names a mob and no animal puts no animal of the   *)
(* mob in the result, whatever its end dates and whatever as_of.           *)
C26_MobTreatmentHoldsNoAnimal ==
    last.op = "get_animals_on_whp" =>
        \A a \in last.animals :
            \E t \in Ids(db, "treatment_events") :
                /\ \E e \in db.treatment_events[t].event_id :
                      e \in Ids(db, "events") /\ db.events[e].animal_id = Some(a)
                /\ \E x \in EndDates(db, t) : x >= last.as_of_date

(* a mob treated with an end date still ahead, one of its animals treated  *)
(* individually as well and in the result, another of its animals not      *)
C26_Witness ==
    /\ last.op = "get_animals_on_whp"
    /\ \E t \in Ids(db, "treatment_events") :
          \E e \in db.treatment_events[t].event_id :
              /\ db.events[e].animal_id = None
              /\ \E x \in EndDates(db, t) : x >= last.as_of_date
              /\ \E a, b \in Ids(db, "animals") :
                    /\ db.animals[a].mob_id = db.events[e].mob_id
                    /\ db.animals[b].mob_id = db.events[e].mob_id
                    /\ db.animals[a].status = Some("alive")
                    /\ a \notin last.animals
                    /\ b \in last.animals

(***************************************************************************)
(* The dashboard: the 'On WHP' card shows len(get_animals_on_whp()).       *)
(***************************************************************************)
DashboardView_refresh_stats(d, today) ==
    [on_whp |-> Cardinality(get_animals_on_whp(d, today))]

RefreshStats ==
    \E today \in Todays :
        /\ last' = [op |-> "_refresh_stats", raised |-> FALSE, today |-> today,
                    on_whp |-> DashboardView_refresh_stats(db, today).on_whp]
        /\ conn' = TRUE
        /\ UNCHANGED <<db, now, files>>

NextDashboard == AddAnimal \/ SaveProduct \/ TreatmentDialogAccept \/ RefreshStats

SpecDashboard == Init /\ [][NextDashboard]_vars

(* C27: the 'On WHP' figure of the dashboard is the number of distinct     *)
(* alive animals with at least one treatment whose end date is on or after *)
(* today; an animal with several such treatments counts once.              *)
C27_OnWhpCountsAnimalsOnce ==
    last.op = "_refresh_stats" =>
        last.on_whp
           = Cardinality({a \in Ids(db, "animals") :
                            /\ db.animals[a].status = Some("alive")
                            /\ HasUnexpiredTreatment(db, a, last.today)})

(***************************************************************************)
(* Saving a record and reading it back.  The record saved may carry the id *)
(* of a row that was deleted since the record was loaded.                  *)
(***************************************************************************)
SaveAnimalRecord ==
    \E id \in Ref("animals"), visual_tag \in {<<"A">>, <<"b">>},
       status \in {"alive", "sold"} :
        LET animal == [NewAnimal EXCEPT !.id = id, !.visual_tag = visual_tag,
                                        !.status = status]
            r == save_animal(db, animal, now)
        IN /\ id = None => db.seq.animals < MaxAnimals
           /\ db' = r.db
           /\ last' = [op |-> "save_animal", raised |-> r.raised, id |-> r.id,
                       saved |-> animal]
           /\ conn' = TRUE
           /\ UNCHANGED <<now, files>>

SaveMobRecord ==
    \E id \in Ref("mobs"), name \in Names :
        LET mob == [id |-> id, name |-> name, species |-> "sheep",
                    current_paddock_id |-> None]
            r == save_mob(db, mob, now)
        IN /\ id = None => db.seq.mobs < MaxAnimals
           /\ db' = r.db
           /\ last' = [op |-> "save_mob", raised |-> r.raised, id |-> r.id,
                       saved |-> mob]
           /\ conn' = TRUE
           /\ UNCHANGED <<now, files>>

NextRoundTrip ==
    SaveAnimalRecord \/ SaveMobRecord \/ DeleteAnimal \/ DeleteMob \/ Tick

SpecRoundTrip == Init /\ [][NextRoundTrip]_vars

(* C28: whenever save_animal(e) or save_mob(e) returns without error,      *)
(* get_animal(e.id) or get_mob(e.id) returns a record whose fields are     *)
(* those of e, whatever identity e carried, the identity of a row deleted  *)
(* since included.                                                         *)
C28_SavedRecordReadsBack ==
    /\ (last.op = "save_animal" /\ ~last.raised) =>
          /\ last.id # None
          /\ get_animal(db, The(last.id)) = Some([last.saved EXCEPT !.id = last.id])
    /\ (last.op = "save_mob" /\ ~last.raised) =>
          /\ last.id # None
          /\ get_mob(db, The(last.id)) = Some([last.saved EXCEPT !.id = last.id])

(***************************************************************************)
(* The quick-move and quick-status dialogs of the animals view.            *)
(***************************************************************************)
(* A move that fails on a selected animal that is no longer stored. *)
RECURSIVE QuickMoveDialog_on_accept_strict(_, _, _, _)
QuickMoveDialog_on_accept_strict(d, animal_ids, mob_id, t) ==
    IF animal_ids = <<>>
    THEN [db |-> d, raised |-> FALSE]
    ELSE LET animal == get_animal(d, Head(animal_ids))
             r == IF animal # None
                  THEN save_animal(d, [The(animal) EXCEPT !.mob_id = mob_id], t)
                  ELSE [db |-> d, raised |-> TRUE]
         IN IF r.raised
            THEN [db |-> r.db, raised |-> TRUE]
            ELSE QuickMoveDialog_on_accept_strict(r.db, Tail(animal_ids), mob_id, t)

RECURSIVE QuickMoveDialog_on_accept(_, _, _, _)
QuickMoveDialog_on_accept(d, animal_ids, mob_id, t) ==
    IF animal_ids = <<>>
    THEN [db |-> d, raised |-> FALSE]
    ELSE LET animal == get_animal(d, Head(animal_ids))
             r == IF animal # None
                  THEN save_animal(d, [The(animal) EXCEPT !.mob_id = mob_id], t)
                  ELSE [db |-> d, raised |-> FALSE]
         IN IF r.raised
            THEN [db |-> r.db, raised |-> TRUE]
            ELSE QuickMoveDialog_on_accept(r.db, Tail(animal_ids), mob_id, t)

(* The combo box offers "(Remove from mob)" and every stored mob. *)
MoveDialogAccept ==
    \E animal_ids \in Selections(Issued("animals")),
       mob_id \in {None} \cup {Some(m) : m \in Ids(db, "mobs")} :
        LET r == QuickMoveDialog_on_accept(db, animal_ids, mob_id, now)
        IN /\ db' = r.db
           /\ last' = [op |-> "QuickMoveDialog", raised |-> r.raised,
                       animal_ids |-> {animal_ids[i] : i \in DOMAIN animal_ids},
                       mob_id |-> mob_id,
                       changed |-> {a \in Ids(db, "animals") :
                                       db.animals[a].mob_id # r.db.animals[a].mob_id}]
           /\ conn' = TRUE
           /\ UNCHANGED <<now, files>>

(* The status dialog, marking the selection sold or alive again. *)
StatusDialogMark ==
    \E animal_ids \in Selections(Issued("animals")), new_status \in {"sold", "alive"} :
        LET r == QuickStatusDialog_on_accept(db, animal_ids, new_status, now)
        IN /\ db' = r.db
           /\ last' = [op |-> "QuickStatusDialog", raised |-> r.raised,
                       animal_ids |-> {animal_ids[i] : i \in DOMAIN animal_ids},
                       new_status |-> new_status,
                       changed |-> {a \in Ids(db, "animals") :
                                       db.animals[a].status # r.db.animals[a].status}]
           /\ conn' = TRUE
           /\ UNCHANGED <<now, files>>

NextQuick ==
    \/ AddMob \/ AddAnimalInMob \/ DeleteAnimal \/ SaveMobEvent \/ AddTask
    \/ MoveDialogAccept \/ StatusDialogMark \/ Tick

SpecQuick == Init /\ [][NextQuick]_vars

(* C29: accepting the quick-move dialog changes only mob_id and           *)
(* updated_at of the selected animals, accepting the quick-status dialog   *)
(* only their status and updated_at; every other field of those animals,   *)
(* every animal not selected and every event, detail and task stay as      *)
(* they were, and a selected id that is no longer stored is skipped        *)
(* without error.                                                          *)
C29_QuickDialogsChangeOneField ==
    [][ /\ last'.op = "QuickMoveDialog" =>
            /\ ~last'.raised
            /\ [db' EXCEPT !.animals = db.animals] = db
            /\ Ids(db', "animals") = Ids(db, "animals")
            /\ \A a \in Ids(db, "animals") :
                  IF a \in last'.animal_ids
                  THEN \E u \in {db.animals[a].updated_at, Some(now)} :
                          db'.animals[a] =
                             [db.animals[a] EXCEPT !.mob_id = last'.mob_id,
                                                   !.updated_at = u]
                  ELSE db'.animals[a] = db.animals[a]
        /\ last'.op = "QuickStatusDialog" =>
            /\ ~last'.raised
            /\ [db' EXCEPT !.animals = db.animals] = db
            /\ Ids(db', "animals") = Ids(db, "animals")
            /\ \A a \in Ids(db, "animals") :
                  IF a \in last'.animal_ids
                  THEN \E u \in {db.animals[a].updated_at, Some(now)} :
                          db'.animals[a] =
                             [db.animals[a] EXCEPT
                                 !.status = Some(last'.new_status),
                                 !.updated_at = u]
                  ELSE db'.animals[a] = db.animals[a] ]_vars

(* a move of two selected animals, one deleted since and one stored, that  *)
(* put the stored one in a mob while an event and a task were stored       *)
C29_Witness ==
    /\ last.op = "QuickMoveDialog"
    /\ ~last.raised
    /\ last.animal_ids \ Ids(db, "animals") # {}
    /\ last.changed # {}
    /\ last.mob_id # None
    /\ Ids(db, "events") # {}
    /\ Ids(db, "tasks") # {}

====
